---------------------------- MODULE Spec2Model ----------------------------
(***************************************************************************)
(* Apex Explorer: the rename-data resolution and delivery pipeline.        *)
(*                                                                         *)
(* background.js  getSettings, buildFilename, parseQboFilename, the        *)
(*                onDeterminingFilename listener with renameDownload, the  *)
(*                tabs.onUpdated listener with handleBlobTab, notifyRename *)
(* content.js     readTransactionData, onNavigate and the MutationObserver,*)
(*                the capture-phase click listener                         *)
(* popup.js       save                                                     *)
(*                                                                         *)
(* A JavaScript string is a sequence of characters; a character is a       *)
(* one-element TLA+ string; "NBSP" stands for U+00A0, "GRAVE" for U+0060  *)
(* and "APOS" for U+0027.  A value that may be undefined or null is a      *)
(* sequence of at most one element: Null, or Some(v).                      *)
(* Every chrome.storage call of the service worker is an operation put on  *)
(* its queue and served later, in call order; an awaited call resumes its  *)
(* handler when it is served.                                              *)
(***************************************************************************)
EXTENDS Integers, Sequences, FiniteSets, TLC

Null == <<>>

Some(v) == <<v>>

\* ------------------------------------------------------------------------
\* Characters and strings
\* ------------------------------------------------------------------------

UpperCase == <<"A","B","C","D","E","F","G","H","I","J","K","L","M",
               "N","O","P","Q","R","S","T","U","V","W","X","Y","Z">>

LowerCase == <<"a","b","c","d","e","f","g","h","i","j","k","l","m",
               "n","o","p","q","r","s","t","u","v","w","x","y","z">>

Digit == <<"0","1","2","3","4","5","6","7","8","9">>

\* String.prototype.toLowerCase on one character (the regexes' /i flag)
ToLower(c) ==
  IF \E i \in DOMAIN UpperCase : UpperCase[i] = c
  THEN LowerCase[CHOOSE i \in DOMAIN UpperCase : UpperCase[i] = c]
  ELSE c

\* the class \d
DigitChars == {Digit[i] : i \in DOMAIN Digit}

IsDigit(c) == c \in DigitChars

\* the control characters \x00-\x1f the model's strings can hold
ControlChars == {"\t", "\n", "\r", "\f"}

\* the class [<>:"/\\|?*\x00-\x1f] of buildFilename
IllegalChars == {"<", ">", ":", "\"", "/", "\\", "|", "?", "*"} \cup ControlChars

\* the class \s
SpaceChars == {" ", "NBSP", "\t", "\n", "\r", "\f"}

IsSpace(c) == c \in SpaceChars

\* s.slice(i - 1, j) with 1-based inclusive bounds, empty when i > j
Slice(s, i, j) == [k \in 1..(j - i + 1) |-> s[i + k - 1]]

\* whether pat occurs in s at position i
MatchAt(s, pat, i) ==
  /\ i + Len(pat) - 1 <= Len(s)
  /\ \A k \in 1..Len(pat) : s[i + k - 1] = pat[k]

\* String(n) of a natural number
RECURSIVE DigitsOf(_)
DigitsOf(n) ==
  IF n < 10 THEN <<Digit[n + 1]>>
  ELSE DigitsOf(n \div 10) \o <<Digit[(n % 10) + 1]>>

\* String(n).padStart(2, '0')
PadStart2(n) == IF n < 10 THEN <<"0">> \o DigitsOf(n) ELSE DigitsOf(n)

\* The replacement text of String.prototype.replaceAll(pattern, string) for
\* the match of length n at position i of s: $$ is a dollar sign, $& the
\* match, $GRAVE the text before it, $APOS the text after it.
RECURSIVE GetSubstitution(_, _, _, _, _)
GetSubstitution(rep, k, s, i, n) ==
  IF k > Len(rep) THEN <<>>
  ELSE IF rep[k] = "$" /\ k < Len(rep) /\ rep[k + 1] \in {"$", "&", "GRAVE", "APOS"}
  THEN (CASE rep[k + 1] = "$" -> <<"$">>
          [] rep[k + 1] = "&" -> Slice(s, i, i + n - 1)
          [] rep[k + 1] = "GRAVE" -> Slice(s, 1, i - 1)
          [] OTHER            -> Slice(s, i + n, Len(s)))
       \o GetSubstitution(rep, k + 2, s, i, n)
  ELSE <<rep[k]>> \o GetSubstitution(rep, k + 1, s, i, n)

RECURSIVE ReplaceAllFrom(_, _, _, _)
ReplaceAllFrom(s, pat, rep, i) ==
  IF i > Len(s) THEN <<>>
  ELSE IF MatchAt(s, pat, i)
  THEN GetSubstitution(rep, 1, s, i, Len(pat)) \o ReplaceAllFrom(s, pat, rep, i + Len(pat))
  ELSE <<s[i]>> \o ReplaceAllFrom(s, pat, rep, i + 1)

\* s.replaceAll(pat, rep) for a non-empty string pattern
ReplaceAll(s, pat, rep) == ReplaceAllFrom(s, pat, rep, 1)

\* s.replace(pat, rep) for a string pattern and a replacement without '$':
\* the first occurrence only
ReplaceFirst(s, pat, rep) ==
  IF \E i \in 1..Len(s) : MatchAt(s, pat, i)
  THEN LET i == CHOOSE j \in 1..Len(s) :
                  MatchAt(s, pat, j) /\ \A h \in 1..(j - 1) : ~MatchAt(s, pat, h)
       IN  Slice(s, 1, i - 1) \o rep \o Slice(s, i + Len(pat), Len(s))
  ELSE s

\* ------------------------------------------------------------------------
\* background.js: filename building
\* ------------------------------------------------------------------------

\* new Date() at clock value t: the clock starts at midnight of
\* 2026-02-20 and the model's runs stay within that month
CurrentDate(t) == [y |-> 2026, m |-> 2, d |-> 20 + (t \div 86400000)]

formatDate(fmt, t) ==
  LET d    == CurrentDate(t)
      y    == DigitsOf(d.y)
      m    == PadStart2(d.m)
      day  == PadStart2(d.d)
  IN  ReplaceFirst(ReplaceFirst(ReplaceFirst(fmt,
        <<"Y","Y","Y","Y">>, y), <<"M","M">>, m), <<"D","D">>, day)

\* name.replace(/[<>:"/\\|?*\x00-\x1f]/g, '')
StripIllegal(s) == SelectSeq(s, LAMBDA c : c \notin IllegalChars)

\* the end of the maximal run of characters of a class that starts at i
RunEnd(s, i, class) ==
  CHOOSE e \in i..Len(s) :
    /\ \A k \in (i + 1)..e : s[k] \in class
    /\ e = Len(s) \/ s[e + 1] \notin class

\* name.replace(/\s{2,}/g, ' ')
RECURSIVE CollapseSpacesFrom(_, _)
CollapseSpacesFrom(s, i) ==
  IF i > Len(s) THEN <<>>
  ELSE IF IsSpace(s[i])
  THEN LET e == RunEnd(s, i, SpaceChars)
       IN  (IF e > i THEN <<" ">> ELSE <<s[i]>>) \o CollapseSpacesFrom(s, e + 1)
  ELSE <<s[i]>> \o CollapseSpacesFrom(s, i + 1)

CollapseSpaces(s) == CollapseSpacesFrom(s, 1)

IsDash(c) == c = "-"

\* name.replace(/-{3,}/g, '--')
RECURSIVE CollapseDashesFrom(_, _)
CollapseDashesFrom(s, i) ==
  IF i > Len(s) THEN <<>>
  ELSE IF IsDash(s[i])
  THEN LET e == RunEnd(s, i, {"-"})
       IN  (IF e - i + 1 >= 3 THEN <<"-", "-">> ELSE Slice(s, i, e))
           \o CollapseDashesFrom(s, e + 1)
  ELSE <<s[i]>> \o CollapseDashesFrom(s, i + 1)

CollapseDashes(s) == CollapseDashesFrom(s, 1)

IsSpaceOrDot(c) == IsSpace(c) \/ c = "."

\* the trim of buildFilename taking whitespace only, no dot
TrimSpacesDots_SpacesOnly(s) ==
  LET keep == {i \in 1..Len(s) : ~IsSpace(s[i])}
  IN  IF keep = {} THEN <<>>
      ELSE LET lo == CHOOSE i \in keep : \A j \in keep : i <= j
               hi == CHOOSE i \in keep : \A j \in keep : i >= j
           IN  Slice(s, lo, hi)

\* name.replace(/^[\s.]+|[\s.]+$/g, '')
TrimSpacesDots(s) ==
  LET keep == {i \in 1..Len(s) : ~IsSpaceOrDot(s[i])}
  IN  IF keep = {} THEN <<>>
      ELSE LET lo == CHOOSE i \in keep : \A j \in keep : i <= j
               hi == CHOOSE i \in keep : \A j \in keep : i >= j
           IN  Slice(s, lo, hi)

QBO_Document == <<"Q","B","O","_","D","o","c","u","m","e","n","t","_">>

\* buildFilename(format, data) at clock value t; every field of data is a
\* string, so (x || '') is x and (data.dateFormat || 'YYYY-MM-DD') is the
\* default for the empty string
buildFilename(format, data, t) ==
  LET dateFormat == IF data.dateFormat = <<>> THEN <<"Y","Y","Y","Y","-","M","M","-","D","D">>
                    ELSE data.dateFormat
      n1 == ReplaceAll(format, <<"{","n","u","m","}">>, data.num)
      n2 == ReplaceAll(n1, <<"{","c","u","s","t","o","m","e","r","}">>, data.customer)
      n3 == ReplaceAll(n2, <<"{","t","y","p","e","}">>, data.type)
      n4 == ReplaceAll(n3, <<"{","d","a","t","e","}">>, formatDate(dateFormat, t))
      name == TrimSpacesDots(CollapseDashes(CollapseSpaces(StripIllegal(n4))))
  IN  IF name = <<>> THEN QBO_Document \o DigitsOf(t) ELSE name

\* the alternation (Estimate|Invoice|Sales Receipt|Purchase Order|Credit
\* Memo|Bill|Refund Receipt) of the filename pattern, in its order
QboTypes == <<
  <<"E","s","t","i","m","a","t","e">>,
  <<"I","n","v","o","i","c","e">>,
  <<"S","a","l","e","s"," ","R","e","c","e","i","p","t">>,
  <<"P","u","r","c","h","a","s","e"," ","O","r","d","e","r">>,
  <<"C","r","e","d","i","t"," ","M","e","m","o">>,
  <<"B","i","l","l">>,
  <<"R","e","f","u","n","d"," ","R","e","c","e","i","p","t">> >>

\* whether s starts with word, letters compared without case
StartsWithNoCase(s, word) ==
  /\ Len(word) <= Len(s)
  /\ \A k \in 1..Len(word) : ToLower(s[k]) = ToLower(word[k])

\* the match of /^(Estimate|...|Refund Receipt)\s+(\d+)/i against filename:
\* Null, or the first alternative that matches with the two groups
QboMatch(filename) ==
  LET ok(k) == /\ StartsWithNoCase(filename, QboTypes[k])
               /\ Len(filename) > Len(QboTypes[k])
               /\ IsSpace(filename[Len(QboTypes[k]) + 1])
               /\ LET e == RunEnd(filename, Len(QboTypes[k]) + 1, SpaceChars)
                  IN  e < Len(filename) /\ IsDigit(filename[e + 1])
      hits  == {k \in DOMAIN QboTypes : ok(k)}
  IN  IF hits = {} THEN Null
      ELSE LET k == CHOOSE h \in hits : \A g \in hits : h <= g
               n == Len(QboTypes[k])
               e == RunEnd(filename, n + 1, SpaceChars)
           IN  Some([type |-> Slice(filename, 1, n),
                     num  |-> Slice(filename, e + 1, RunEnd(filename, e + 1, DigitChars))])

\* parseQboFilename(filename)
parseQboFilename(filename) ==
  LET match == QboMatch(filename)
  IN  IF match = Null THEN Null
      ELSE Some([type |-> match[1].type, num |-> match[1].num, customer |-> <<>>])

\* ------------------------------------------------------------------------
\* State
\* ------------------------------------------------------------------------

VARIABLES
  now,          \* Date.now(), in milliseconds since the start of the run
  ticks,        \* how many times the clock has advanced
  sync,         \* chrome.storage.sync: key -> Null or Some(value)
  session,      \* chrome.storage.session: key -> Null or Some(record)
  bgQ,          \* storage calls of the service worker not yet served
  dl,           \* the invocation of the onDeterminingFilename listener
  bt,           \* the invocation of handleBlobTab
  cacheTab,     \* the preview tab blobRenameData was last written for
  dom,          \* what the selectors of readTransactionData find on the page
  saves,        \* how many settings the popup has saved
  nav,          \* the page's route and the navigation watcher of content.js
  load,         \* the initial read of content.js
  hk,           \* the hotkey simulation of content.js and the page's menu
  probe         \* the arguments and the result of a function under test

vars == <<now, ticks, sync, session, bgQ, dl, bt, cacheTab, dom, saves, nav, load, hk, probe>>

\* ---- bounds of the model ----

\* the clock advances at most MaxTicks times
MaxTicks == 3

\* the popup saves at most MaxSaves settings
MaxSaves == 1

\* the host application changes its route at most MaxRoutes times
MaxRoutes == 2

\* the page's clock advances at most MaxNavTicks times
MaxNavTicks == 10

\* the clock of a loading page advances at most MaxLoadTicks times
MaxLoadTicks == 7

\* the route changes at most MaxLoadRoutes times while the initial read is
\* under way
MaxLoadRoutes == 1

\* the log of the interleaved hooks holds at most MaxNotes entries
MaxNotes == 3

\* the longest template, in pieces
MaxPieces == 3

\* ---- program constants ----

\* pendingRename is stale after 15 s
PENDING_TTL == 15000

\* blobRenameData is stale after 300 s
BLOB_TTL == 300000

\* the delay of the MutationObserver's timer
NAV_DELAY == 100

\* the delay of onNavigate's timer
SETTLE_DELAY == 600

\* ---- the values the environment supplies ----

\* The clock moves through instants at which a staleness test changes its
\* answer: 285000, 299999 and 300000 ms after the start, and on in that
\* rhythm.  A record stamped at 0 is 299999 and then 300000 ms old, one
\* stamped at 285000 is 14999 and then 15000 ms old.
TickStep(i) ==
  CASE i % 3 = 0 -> BLOB_TTL - PENDING_TTL
    [] i % 3 = 1 -> PENDING_TTL - 1
    [] OTHER     -> 1

FormatDefault == <<"{","n","u","m","}"," ","-"," ","{","c","u","s","t","o","m","e","r","}">>

FormatTypeDate == <<"{","t","y","p","e","}","_","{","d","a","t","e","}">>

DateDefault == <<"Y","Y","Y","Y","-","M","M","-","D","D">>

DateUS == <<"M","M","/","D","D","/","Y","Y","Y","Y">>

DEFAULTS == [enabled |-> TRUE, format |-> FormatDefault,
             dateFormat |-> DateDefault, notifyMode |-> "toast"]

Bill == <<"B","i","l","l">>

\* the page shows Bill 7 of vendor A; a page whose number has not rendered;
\* a page with neither number nor name
Doms == { [num |-> <<"7">>, customer |-> <<"A">>, type |-> Bill],
          [num |-> <<>>,    customer |-> <<"B">>, type |-> Bill],
          [num |-> <<>>,    customer |-> <<>>,    type |-> Bill] }

\* what an earlier page visit left in currentTransaction
Leftovers == { Null, Some([num |-> <<"9">>, customer |-> <<"C">>, type |-> Bill]) }

\* a URL is <<origin prefix, rest>>
QboBlob == "blob:https://qbo.intuit.com"

Tabs == {1, 2}

TabUrl(tab) == <<QboBlob, tab>>

\* the items the platform is about to save: QBO's own download, a download
\* from the viewer of a preview tab, an unrelated download, and a document
\* blob the platform has named after the pattern
Items ==
  { [filename |-> <<"B","i","l","l"," ","7",".","p","d","f">>, url |-> <<"https://qbo.intuit.com", 0>>],
    [filename |-> <<"x",".","p","d","f">>, url |-> <<"https://example.com", 0>>],
    [filename |-> <<"B","i","l","l"," ","7",".","p","d","f">>, url |-> TabUrl(1)] }
  \cup { [filename |-> <<"d","o","c",".","p","d","f">>, url |-> TabUrl(2)] }

\* ------------------------------------------------------------------------
\* Storage
\* ------------------------------------------------------------------------

\* a storage call: area "sync" or "session", kind "get", "set" or "remove";
\* by names the handler that awaits it, "none" when nobody does; tab is the
\* preview tab whose hook made the call, Null for any other caller
Op(area, kind, key, val, by) ==
  [area |-> area, kind |-> kind, key |-> key, val |-> val, by |-> by, tab |-> Null]

\* the effect of serving a set or a remove on a storage area
Written(store, op) ==
  IF op.kind = "set" THEN [store EXCEPT ![op.key] = op.val]
  ELSE IF op.kind = "remove" THEN [store EXCEPT ![op.key] = Null]
  ELSE store

\* chrome.storage.sync.get answering its argument, whatever is stored
SyncGet_DefaultsOnly(store, defaults) == defaults

\* chrome.storage.sync.get(defaults): the keys of defaults, each with its
\* stored value or else its default
SyncGet(store, defaults) ==
  [k \in DOMAIN defaults |-> IF store[k] = Null THEN defaults[k] ELSE store[k][1]]

\* typeof settings.showNotification === 'boolean'
HasLegacyFlag(settings) ==
  "showNotification" \in DOMAIN settings /\ settings["showNotification"] \in BOOLEAN

\* getSettings returning the defaults in place of what is stored
getSettings_Defaults(items) == DEFAULTS

\* getSettings after its await: the settings it returns
getSettings(items) ==
  IF HasLegacyFlag(items)
  THEN [items EXCEPT !.notifyMode = IF items["showNotification"] THEN "toast" ELSE "off"]
  ELSE items

\* getSettings after its await: the storage calls of its migration
getSettingsCalls(items) ==
  IF HasLegacyFlag(items)
  THEN << Op("sync", "remove", "showNotification", Null, "none"),
          Op("sync", "set", "notifyMode", Some(getSettings(items).notifyMode), "none") >>
  ELSE <<>>

\* the head of the service worker's queue is the call handler h awaits
Awaited(h, area, key) ==
  /\ bgQ # <<>>
  /\ bgQ[1].by = h /\ bgQ[1].area = area /\ bgQ[1].key = key

\* Date.now() - record.timestamp < ttl, of a record read from the store
Live(rec, ttl, t) == rec # Null /\ t - rec[1].timestamp < ttl

\* ------------------------------------------------------------------------
\* The environment: the clock, the popup, the storage service
\* ------------------------------------------------------------------------

Tick ==
  /\ ticks < MaxTicks
  /\ now' = now + TickStep(ticks)
  /\ ticks' = ticks + 1
  /\ UNCHANGED <<sync, session, bgQ, dl, bt, cacheTab, dom, saves, nav, load, hk, probe>>

\* popup.js save(key, value)
save(key, value) ==
  /\ saves < MaxSaves
  /\ sync' = [sync EXCEPT ![key] = Some(value)]
  /\ saves' = saves + 1
  /\ UNCHANGED <<now, ticks, session, bgQ, dl, bt, cacheTab, dom, nav, load, hk, probe>>

SettingsSave ==
  \/ \E v \in BOOLEAN : save("enabled", v)
  \/ \E v \in {"off", "badge", "toast"} : save("notifyMode", v)
  \/ \E v \in {FormatDefault, FormatTypeDate} : save("format", v)
  \/ \E v \in {DateDefault, DateUS} : save("dateFormat", v)

\* a set or remove nobody awaits reaches the head of the service worker's
\* queue and is served
BgServe ==
  /\ bgQ # <<>>
  /\ bgQ[1].kind # "get"
  /\ bgQ' = Tail(bgQ)
  /\ sync' = IF bgQ[1].area = "sync" THEN Written(sync, bgQ[1]) ELSE sync
  /\ session' = IF bgQ[1].area = "session" THEN Written(session, bgQ[1]) ELSE session
  /\ cacheTab' = IF bgQ[1].key = "blobRenameData" THEN bgQ[1].tab ELSE cacheTab
  /\ UNCHANGED <<now, ticks, dl, bt, dom, saves, nav, load, hk, probe>>

\* ------------------------------------------------------------------------
\* content.js
\* ------------------------------------------------------------------------

\* readTransactionData(): num, customer and type as the selectors found
\* them, or null when there is neither a number nor a name
readTransactionData(d) ==
  IF d.num = <<>> /\ d.customer = <<>> THEN Null
  ELSE Some([num |-> d.num, customer |-> d.customer, type |-> d.type])

\* where a click can land: the header print button, a menu item with its
\* visible text, or anywhere else
ClickTargets ==
  { [headerPrint |-> TRUE,  menuItem |-> Null],
    [headerPrint |-> FALSE, menuItem |-> Some(<<" ","D","o","w","n","l","o","a","d">>)],
    [headerPrint |-> FALSE, menuItem |-> Some(<<"P","r","i","n","t">>)],
    [headerPrint |-> FALSE, menuItem |-> Some(<<"S","e","n","d">>)],
    [headerPrint |-> FALSE, menuItem |-> Null] }

\* s.trim()
Trim(s) ==
  LET keep == {i \in 1..Len(s) : ~IsSpace(s[i])}
  IN  IF keep = {} THEN <<>>
      ELSE Slice(s, CHOOSE i \in keep : \A j \in keep : i <= j,
                    CHOOSE i \in keep : \A j \in keep : i >= j)

\* s.toLowerCase()
LowerCased(s) == [i \in 1..Len(s) |-> ToLower(s[i])]

\* the click listener comparing the item's text as it stands, untrimmed
ClickAction_Untrimmed(target) ==
  IF target.menuItem = Null /\ ~target.headerPrint THEN Null
  ELSE IF target.headerPrint THEN Some("print")
  ELSE LET text == LowerCased(target.menuItem[1])
       IN  IF text = <<"d","o","w","n","l","o","a","d">> THEN Some("download")
           ELSE IF text = <<"p","r","i","n","t">> THEN Some("print")
           ELSE Null

\* the action the click listener resolves for a target, Null when it returns
\* before extracting
ClickAction(target) ==
  IF target.menuItem = Null /\ ~target.headerPrint THEN Null
  ELSE IF target.headerPrint THEN Some("print")
  ELSE LET text == LowerCased(Trim(target.menuItem[1]))
       IN  IF text = <<"d","o","w","n","l","o","a","d">> THEN Some("download")
           ELSE IF text = <<"p","r","i","n","t">> THEN Some("print")
           ELSE Null

\* the pendingRename record both the click listener and triggerAction build
PendingRecord(action, data, t) ==
  [action |-> action, num |-> data.num, customer |-> data.customer,
   type |-> data.type, timestamp |-> t]

\* the storage call of the click listener for a target, Null when it
\* returns without one
ClickCall(target, d, t) ==
  LET action == ClickAction(target)
      data   == readTransactionData(d)
  IN  IF action = Null \/ data = Null THEN Null
      ELSE Some(Op("session", "set", "pendingRename",
                   Some(PendingRecord(action[1], data[1], t)), "none"))

\* the capture-phase click listener; the content script makes no other
\* storage call here, and the one of the listener is served at once
Click ==
  /\ \E target \in ClickTargets :
       LET call == ClickCall(target, dom, now)
       IN  session' = IF call = Null THEN session ELSE Written(session, call[1])
  /\ UNCHANGED <<now, ticks, sync, bgQ, dl, bt, cacheTab, dom, saves, nav, load, hk, probe>>

\* the click listener runs for a target that is kept, with the store it
\* found and the instant, to compare with what it leaves
ClickOn ==
  /\ \E target \in ClickTargets :
       LET call == ClickCall(target, dom, now)
       IN  /\ session' = IF call = Null THEN session ELSE Written(session, call[1])
           /\ probe' = Some([target |-> target, before |-> session, at |-> now])
  /\ UNCHANGED <<now, ticks, sync, bgQ, dl, bt, cacheTab, dom, saves, nav, load, hk>>

\* ---- hotkey simulation ----

\* if (++attempts > 40)
POLL_CEILING == 40

\* setInterval(..., 50)
POLL_INTERVAL == 50

\* await new Promise(r => setTimeout(r, 100))
MENU_DELAY == 100

\* the menus the page may render, as the visible texts of their items in
\* order
Menus ==
  { << <<"P","r","i","n","t">>, <<" ","D","o","w","n","l","o","a","d">> >>,
    << <<" ","D","o","w","n","l","o","a","d">>, <<"P","r","i","n","t">> >>,
    << <<"S","e","n","d">>, <<"P","r","i","n","t">> >>,
    << <<"S","e","n","d">> >> }

\* the buttons of the page that open the menu: the footer's first button,
\* the header print button, neither
Buttons == {"footer", "header", "none"}

\* no simulation: action requested, the menu on the page (no item when
\* empty), the poll's counter, the timer awaited, the menu items clicked
\* and the values passed to resolve, in order
HkIdle ==
  [pc |-> "idle", action |-> Null, menu |-> <<>>, attempts |-> 0, due |-> Null,
   clicks |-> <<>>, resolves |-> <<>>]

\* the store once the click listener has run for a click on target
Clicked(store, target, t) ==
  LET call == ClickCall(target, dom, t)
  IN  IF call = Null THEN store ELSE Written(store, call[1])

\* el.click() on the item at position i of the menu
ItemClick(h, i) == [h EXCEPT !.clicks = Append(@, [text |-> h.menu[i], index |-> i])]

MenuItemTarget(text) == [headerPrint |-> FALSE, menuItem |-> Some(text)]

\* let target = action === 'download' ? 'download' : 'print'
ActionWord(action) ==
  IF action = "download" THEN <<"d","o","w","n","l","o","a","d">>
  ELSE <<"p","r","i","n","t">>

\* item.innerText?.trim().toLowerCase() === target
TextMatches(text, action) == LowerCased(Trim(text)) = ActionWord(action)

\* the service worker's triggerPrint or triggerDownload message arrives:
\* triggerAction stores pendingRename, clicks the button that opens the
\* menu and runs clickButton up to its first query
HotkeyMessage ==
  /\ hk.pc = "idle"
  /\ \E action \in {"print", "download"}, btn \in Buttons, menu \in {<<>>} \cup Menus :
       LET data == readTransactionData(dom)
           s1 == IF data = Null THEN session
                 ELSE Written(session, Op("session", "set", "pendingRename",
                                Some(PendingRecord(action, data[1], now)), "none"))
           s2 == IF btn = "header"
                 THEN Clicked(s1, [headerPrint |-> TRUE, menuItem |-> Null], now)
                 ELSE s1
           h  == [hk EXCEPT !.action = Some(action), !.menu = menu]
       IN  IF menu # <<>>
           THEN /\ hk' = [ItemClick(h, 1) EXCEPT !.pc = "settling",
                             !.resolves = Append(@, TRUE),
                             !.due = Some(now + MENU_DELAY)]
                /\ session' = Clicked(s2, MenuItemTarget(menu[1]), now)
           ELSE /\ hk' = [h EXCEPT !.pc = "polling", !.due = Some(now + POLL_INTERVAL)]
                /\ session' = s2
  /\ UNCHANGED <<now, ticks, sync, bgQ, dl, bt, cacheTab, dom, saves, nav, load, probe>>

\* the page renders the menu while clickButton polls
MenuRenders ==
  /\ hk.pc = "polling"
  /\ hk.menu = <<>>
  /\ \E menu \in Menus : hk' = [hk EXCEPT !.menu = menu]
  /\ UNCHANGED <<now, ticks, sync, session, bgQ, dl, bt, cacheTab, dom, saves, nav, load, probe>>

\* the page closes the menu after one of its items was clicked
MenuCloses ==
  /\ hk.pc = "settling"
  /\ hk.menu # <<>>
  /\ hk' = [hk EXCEPT !.menu = <<>>]
  /\ UNCHANGED <<now, ticks, sync, session, bgQ, dl, bt, cacheTab, dom, saves, nav, load, probe>>

\* the interval of clickButton fires
PollFires ==
  /\ hk.pc = "polling"
  /\ LET t        == hk.due[1]
         found    == hk.menu # <<>>
         exceeded == hk.attempts + 1 > POLL_CEILING
         h1       == IF found
                     THEN [ItemClick(hk, 1) EXCEPT !.resolves = Append(@, TRUE)]
                     ELSE hk
         h2       == [h1 EXCEPT !.attempts = @ + 1,
                        !.resolves = IF exceeded THEN Append(@, FALSE) ELSE @]
     IN  /\ now' = t
         /\ hk' = IF found THEN [h2 EXCEPT !.pc = "settling", !.due = Some(t + MENU_DELAY)]
                  ELSE IF exceeded THEN [h2 EXCEPT !.pc = "done", !.due = Null]
                  ELSE [h2 EXCEPT !.due = Some(t + POLL_INTERVAL)]
         /\ session' = IF found THEN Clicked(session, MenuItemTarget(hk.menu[1]), t)
                       ELSE session
  /\ UNCHANGED <<ticks, sync, bgQ, dl, bt, cacheTab, dom, saves, nav, load, probe>>

\* the delay after clickButton resolved true ends: triggerAction clicks
\* the first item whose text is the action's word
SettleFires ==
  /\ hk.pc = "settling"
  /\ LET t       == hk.due[1]
         matches == {i \in 1..Len(hk.menu) : TextMatches(hk.menu[i], hk.action[1])}
         first   == CHOOSE i \in matches : \A j \in matches : i <= j
     IN  /\ now' = t
         /\ hk' = IF matches = {} THEN [hk EXCEPT !.pc = "done", !.due = Null]
                  ELSE [ItemClick(hk, first) EXCEPT !.pc = "done", !.due = Null]
         /\ session' = IF matches = {} THEN session
                       ELSE Clicked(session, MenuItemTarget(hk.menu[first]), t)
  /\ UNCHANGED <<ticks, sync, bgQ, dl, bt, cacheTab, dom, saves, nav, load, probe>>

\* ---- SPA navigation detection ----

\* what the selectors find once the page of a route has rendered
PageOf(route) == [num |-> DigitsOf(route), customer |-> <<"A">>, type |-> Bill]

\* the content script has loaded on route 0: lastUrl is location.href, no
\* timer is set; msgs counts the 'navigate' messages under way, changes and
\* extractions log the instants of the route changes and the extractions
NavIdle ==
  [href |-> 0, lastUrl |-> 0, navTimer |-> Null, settle |-> <<>>, msgs |-> 0,
   changes |-> <<>>, extractions |-> <<>>]

\* onNavigate(): setTimeout(..., 600), a timer nothing clears
onNavigate(n, t) == [n EXCEPT !.settle = Append(@, t + SETTLE_DELAY)]

\* the host application pushes a new route; the service worker's
\* onHistoryStateUpdated listener sends 'navigate' to the tab
RouteChange ==
  /\ Len(nav.changes) < MaxRoutes
  /\ nav' = [nav EXCEPT !.href = @ + 1, !.msgs = @ + 1,
                        !.changes = Append(@, now)]
  /\ UNCHANGED <<now, ticks, sync, session, bgQ, dl, bt, cacheTab, dom, saves, load, hk, probe>>

\* the page of the route renders, and the MutationObserver's callback runs
Render ==
  /\ dom # PageOf(nav.href)
  /\ dom' = PageOf(nav.href)
  /\ nav' = IF nav.href = nav.lastUrl THEN nav
            ELSE [nav EXCEPT !.lastUrl = nav.href,
                             !.navTimer = Some(now + NAV_DELAY)]
  /\ UNCHANGED <<now, ticks, sync, session, bgQ, dl, bt, cacheTab, saves, load, hk, probe>>

\* the onMessage listener receives 'navigate', or the message is lost
\* (the sender's catch swallows that)
NavigateMessage ==
  /\ nav.msgs > 0
  /\ \E ok \in BOOLEAN :
       nav' = IF ok THEN onNavigate([nav EXCEPT !.msgs = @ - 1], now)
              ELSE [nav EXCEPT !.msgs = @ - 1]
  /\ UNCHANGED <<now, ticks, sync, session, bgQ, dl, bt, cacheTab, dom, saves, load, hk, probe>>

\* navTimer fires: onNavigate runs
NavTimerFires ==
  /\ nav.navTimer # Null
  /\ nav.navTimer[1] <= now
  /\ nav' = onNavigate([nav EXCEPT !.navTimer = Null], now)
  /\ UNCHANGED <<now, ticks, sync, session, bgQ, dl, bt, cacheTab, dom, saves, load, hk, probe>>

\* onNavigate's callback without its if (data): a null extraction is stored
Extraction_StoresNull ==
  /\ nav.settle # <<>>
  /\ nav.settle[1] <= now
  /\ LET data == readTransactionData(dom)
     IN  /\ nav' = [nav EXCEPT !.settle = Tail(@),
                               !.extractions = Append(@, [at |-> now, href |-> nav.href,
                                                          data |-> data])]
         /\ session' = Written(session, Op("session", "set", "currentTransaction",
                                           data, "none"))
  /\ UNCHANGED <<now, ticks, sync, bgQ, dl, bt, cacheTab, dom, saves, load, hk, probe>>

\* the timer of onNavigate fires: the extraction, and the write of
\* currentTransaction when it found data
Extraction ==
  /\ nav.settle # <<>>
  /\ nav.settle[1] <= now
  /\ LET data == readTransactionData(dom)
     IN  /\ nav' = [nav EXCEPT !.settle = Tail(@),
                               !.extractions = Append(@, [at |-> now, href |-> nav.href,
                                                          data |-> data])]
         /\ session' = IF data = Null THEN session
                       ELSE Written(session, Op("session", "set", "currentTransaction",
                                                data, "none"))
  /\ UNCHANGED <<now, ticks, sync, bgQ, dl, bt, cacheTab, dom, saves, load, hk, probe>>

\* the page's clock advances by the shorter delay, once the timers that
\* are due have fired
NavTick ==
  /\ ticks < MaxNavTicks
  /\ ~(nav.navTimer # Null /\ nav.navTimer[1] <= now)
  /\ ~(nav.settle # <<>> /\ nav.settle[1] <= now)
  /\ now' = now + NAV_DELAY
  /\ ticks' = ticks + 1
  /\ UNCHANGED <<sync, session, bgQ, dl, bt, cacheTab, dom, saves, nav, load, hk, probe>>

\* ---- the initial read ----

\* initRead retries while attempt < 5
RETRY_LIMIT == 5

\* the delay of initRead's timer
RETRY_DELAY == 600

\* the content script has not run initRead yet; attempt is the argument of
\* the call under way or scheduled, due the instant of the scheduled call,
\* reads the extractions made, in order
LoadIdle == [pc |-> "idle", attempt |-> 0, due |-> Null, reads |-> <<>>]

\* initRead(attempt) at instant t with data extracted: the retry it
\* schedules, or its end
initRead(l, data, t) ==
  IF data # Null /\ data[1].customer = <<>> /\ l.attempt < RETRY_LIMIT
  THEN [l EXCEPT !.pc = "waiting", !.attempt = @ + 1, !.due = Some(t + RETRY_DELAY),
                 !.reads = Append(@, data)]
  ELSE [l EXCEPT !.pc = "done", !.due = Null, !.reads = Append(@, data)]

\* chrome.storage.session.set({ currentTransaction: data }) under if (data)
InitWrite(store, data) ==
  IF data = Null THEN store
  ELSE Written(store, Op("session", "set", "currentTransaction", data, "none"))

\* the content script is injected: its top level calls initRead()
ScriptLoads ==
  /\ load.pc = "idle"
  /\ load' = initRead(load, readTransactionData(dom), now)
  /\ session' = InitWrite(session, readTransactionData(dom))
  /\ UNCHANGED <<now, ticks, sync, bgQ, dl, bt, cacheTab, dom, saves, nav, hk, probe>>

\* the timer of initRead fires: initRead(attempt + 1)
InitRetry ==
  /\ load.pc = "waiting"
  /\ load.due[1] <= now
  /\ load' = initRead(load, readTransactionData(dom), now)
  /\ session' = InitWrite(session, readTransactionData(dom))
  /\ UNCHANGED <<now, ticks, sync, bgQ, dl, bt, cacheTab, dom, saves, nav, hk, probe>>

\* the page before any field has rendered
BlankPage == [num |-> <<>>, customer |-> <<>>, type |-> <<>>]

\* the page of a route with its number rendered and its name still empty
NumberOnly(route) == [PageOf(route) EXCEPT !.customer = <<>>]

\* QBO renders the fields of the page progressively: the number, then the
\* name; the MutationObserver's callback runs on each mutation
RenderField ==
  /\ dom \in {BlankPage, NumberOnly(nav.href)}
  /\ dom' = IF dom = BlankPage THEN NumberOnly(nav.href) ELSE PageOf(nav.href)
  /\ nav' = IF nav.href = nav.lastUrl THEN nav
            ELSE [nav EXCEPT !.lastUrl = nav.href,
                             !.navTimer = Some(now + NAV_DELAY)]
  /\ UNCHANGED <<now, ticks, sync, session, bgQ, dl, bt, cacheTab, saves, load, hk, probe>>

\* the instants at which a timer of the content script is due
DueTimes ==
  (IF nav.navTimer = Null THEN {} ELSE {nav.navTimer[1]})
  \cup {nav.settle[i] : i \in 1..Len(nav.settle)}
  \cup (IF load.due = Null THEN {} ELSE {load.due[1]})

\* the page's clock advances to the next instant at which a timer is due
Elapse ==
  /\ ticks < MaxLoadTicks
  /\ DueTimes # {}
  /\ \A d \in DueTimes : d > now
  /\ now' = CHOOSE d \in DueTimes : \A e \in DueTimes : d <= e
  /\ ticks' = ticks + 1
  /\ UNCHANGED <<sync, session, bgQ, dl, bt, cacheTab, dom, saves, nav, load, hk, probe>>

\* ------------------------------------------------------------------------
\* background.js: the save-intercept hook
\* ------------------------------------------------------------------------

\* item.url?.startsWith('blob:https://qbo.intuit.com')
IsQboBlob(item) == item.url[1] = QboBlob

\* item.filename?.match(/^(Estimate|...|Refund Receipt)\s+\d+/i)
IsQboFile(item) == QboMatch(item.filename) # Null

\* renameDownload without its scope guard
InScope_Unguarded(item) == TRUE

\* the scope guard of renameDownload: the item is intercepted
InScope(item) == IsQboBlob(item) \/ IsQboFile(item)

\* suggest({ filename: item.filename })
PassThrough(item) == [filename |-> item.filename, conflictAction |-> Null]

\* the renamed answer without its conflictAction
Renamed_Bare(filename) == [filename |-> filename, conflictAction |-> Null]

\* suggest({ filename, conflictAction: 'uniquify' })
Renamed(filename) == [filename |-> filename, conflictAction |-> Some("uniquify")]

DotPdf == <<".","p","d","f">>

\* buildFilename(settings.format, {num, customer, type, dateFormat}) as both
\* hooks call it
FormattedName(settings, data, t) ==
  buildFilename(settings.format,
                [num |-> data.num, customer |-> data.customer, type |-> data.type,
                 dateFormat |-> settings.dateFormat], t)

\* { num: data.num, customer: data.customer, type: data.type }
Fields(data) == [num |-> data.num, customer |-> data.customer, type |-> data.type]

\* no invocation: the state between two downloads
DlIdle ==
  [pc |-> "idle", item |-> Null, settings |-> Null, pendingRename |-> Null,
   data |-> Null, tier |-> 0, answers |-> <<>>, events |-> <<>>, reads |-> <<>>,
   notes |-> <<>>]

\* the handler calls suggest(answer)
Suggest(rec, answer) ==
  [rec EXCEPT !.answers = Append(@, answer), !.events = Append(@, "suggest")]

\* renameDownload returns or rejects: the invocation is over
Ended(rec) == [rec EXCEPT !.pc = "done"]

\* .catch(() => { suggest({ filename: item.filename }); }) of the listener
Rejected(rec) ==
  Ended(Suggest([rec EXCEPT !.events = Append(@, "reject")], PassThrough(rec.item[1])))

\* an awaited read of the session store: the key, what the handler saw and
\* when
Read(rec, key, value) ==
  [rec EXCEPT !.reads = Append(@, [key |-> key, value |-> value, at |-> now])]

\* a listener that answers before it returns
DeterminingFilename_Synchronous ==
  /\ dl.pc = "idle"
  /\ \E item \in Items :
       dl' = Ended([Suggest([DlIdle EXCEPT !.item = Some(item)], PassThrough(item))
                      EXCEPT !.events = Append(@, "return")])
  /\ UNCHANGED <<now, ticks, sync, session, bgQ, bt, cacheTab, dom, saves, nav, load, hk, probe>>

\* chrome.downloads.onDeterminingFilename fires: the listener calls
\* renameDownload, which runs to the await in getSettings, and returns true
DeterminingFilename ==
  /\ dl.pc = "idle"
  /\ \E item \in Items :
       dl' = [DlIdle EXCEPT !.pc = "settings", !.item = Some(item),
                            !.events = <<"return">>]
  /\ bgQ' = Append(bgQ, Op("sync", "get", "DEFAULTS", Null, "dl"))
  /\ UNCHANGED <<now, ticks, sync, session, bt, cacheTab, dom, saves, nav, load, hk, probe>>

\* the faults of the post-suggest step: none, chrome.storage.session.remove
\* throws, chrome.action.setBadgeText throws, chrome.notifications.create
\* throws
CleanupFaults == {"none", "remove", "badge", "toast"}

\* notifyRename(filename, mode) under a fault: the calls it completes, in
\* order (the badge, the timeout that clears it after 3 s, the toast with
\* its message), and whether it threw
notifyRename(filename, mode, fault) ==
  [out   |-> (IF fault # "badge"
              THEN <<[call |-> "setBadgeText", message |-> <<>>],
                     [call |-> "setTimeout", message |-> <<>>]>>
              ELSE <<>>)
             \o (IF mode = "toast" /\ fault \notin {"badge", "toast"}
                 THEN <<[call |-> "notifications.create",
                         message |-> <<"S","a","v","e","d"," ","a","s",":"," ">> \o filename]>>
                 ELSE <<>>),
   threw |-> fault = "badge" \/ (fault = "toast" /\ mode = "toast")]

\* the try block after suggest: the remove call it makes, the notification,
\* and whether an exception reached its catch
Cleanup(rec, filename, fault) ==
  LET settings == rec.settings[1]
      removes  == rec.pendingRename # Null /\ fault # "remove"
      threw1   == rec.pendingRename # Null /\ fault = "remove"
      notifies == ~threw1 /\ settings.notifyMode # "off"
      n        == notifyRename(filename, settings.notifyMode, fault)
  IN  [calls |-> IF removes
                 THEN <<Op("session", "remove", "pendingRename", Null, "none")>>
                 ELSE <<>>,
       out   |-> IF notifies THEN n.out ELSE <<>>,
       threw |-> threw1 \/ (notifies /\ n.threw)]

\* the try block missing: the exception rejects renameDownload, and the
\* listener's catch answers again
CleanupCaught_Rethrown(rec) == Rejected(rec)

\* catch (e) { console.log(...) } of the try block: the exception ends there
CleanupCaught(rec) == [rec EXCEPT !.events = Append(@, "caught")]

\* renameDownload cleaning up and notifying before it answers
Resolved_CleanupFirst(q, rec, data, tier) ==
  IF data = Null
  THEN /\ dl' = Ended(Suggest(rec, PassThrough(rec.item[1])))
       /\ bgQ' = q
  ELSE \E fault \in CleanupFaults :
         LET filename == FormattedName(rec.settings[1], data[1], now) \o DotPdf
             r0 == [rec EXCEPT !.data = Some(Fields(data[1])), !.tier = tier]
             c  == Cleanup(r0, filename, fault)
             r1 == [r0 EXCEPT !.events = @ \o (IF c.calls # <<>> THEN <<"remove">> ELSE <<>>)
                                         \o (IF c.out # <<>> THEN <<"notify">> ELSE <<>>),
                              !.notes = c.out]
             r2 == Suggest(r1, Renamed(filename))
         IN  /\ dl' = Ended(IF c.threw THEN CleanupCaught(r2) ELSE r2)
             /\ bgQ' = q \o c.calls

\* renameDownload from "if (!data)" on, with data resolved at a tier (0: no
\* tier); q is the queue once the awaited call is served
Resolved(q, rec, data, tier) ==
  IF data = Null
  THEN /\ dl' = Ended(Suggest(rec, PassThrough(rec.item[1])))
       /\ bgQ' = q
  ELSE \E fault \in CleanupFaults :
         LET filename == FormattedName(rec.settings[1], data[1], now) \o DotPdf
             r1 == Suggest([rec EXCEPT !.data = Some(Fields(data[1])), !.tier = tier],
                           Renamed(filename))
             c  == Cleanup(r1, filename, fault)
             r2 == [r1 EXCEPT !.events = @ \o (IF c.calls # <<>> THEN <<"remove">> ELSE <<>>)
                                         \o (IF c.out # <<>> THEN <<"notify">> ELSE <<>>),
                              !.notes = c.out]
         IN  /\ dl' = Ended(IF c.threw THEN CleanupCaught(r2) ELSE r2)
             /\ bgQ' = q \o c.calls

\* chrome.storage.session.get(key) awaited by handler h
SessionGet(key, h) == Op("session", "get", key, Null, h)

\* renameDownload resumes from "await getSettings()"
DlSettings ==
  /\ dl.pc = "settings"
  /\ Awaited("dl", "sync", "DEFAULTS")
  /\ \E ok \in BOOLEAN :
       LET items    == SyncGet(sync, DEFAULTS)
           settings == getSettings(items)
           rec      == [dl EXCEPT !.settings = Some(settings)]
           q        == Tail(bgQ) \o getSettingsCalls(items)
       IN  IF ~ok THEN dl' = Rejected(dl) /\ bgQ' = Tail(bgQ)
           ELSE IF ~settings.enabled \/ ~InScope(dl.item[1])
           THEN dl' = Ended(Suggest(rec, PassThrough(dl.item[1]))) /\ bgQ' = q
           ELSE /\ dl' = [rec EXCEPT !.pc = "pendingRename"]
                /\ bgQ' = Append(q, SessionGet("pendingRename", "dl"))
  /\ UNCHANGED <<now, ticks, sync, session, bt, cacheTab, dom, saves, nav, load, hk, probe>>

\* the staleness test of the 1st tier with <= for <
Tier1_Inclusive(pendingRename, t) ==
  IF pendingRename # Null /\ t - pendingRename[1].timestamp <= PENDING_TTL
  THEN pendingRename ELSE Null

\* the 1st tier taking only a record of a download click
Tier1_DownloadOnly(pendingRename, t) ==
  IF Live(pendingRename, PENDING_TTL, t) /\ pendingRename[1].action = "download"
  THEN pendingRename ELSE Null

\* the 1st tier: the pendingRename the click listener left, if fresh
Tier1(pendingRename, t) ==
  IF Live(pendingRename, PENDING_TTL, t) THEN pendingRename ELSE Null

\* the 2nd tier tested against the TTL of the 1st
Tier2_PendingTtl(blobRenameData, t) ==
  IF Live(blobRenameData, PENDING_TTL, t) THEN blobRenameData ELSE Null

\* the 2nd tier of renameDownload: the blobRenameData cached for a preview
\* tab, if fresh
Tier2(blobRenameData, t) ==
  IF Live(blobRenameData, BLOB_TTL, t) THEN blobRenameData ELSE Null

\* renameDownload without its fourth tier
Tier4_Skipped(item) == Null

\* the 4th tier of renameDownload: the parse of the item's own name
Tier4(item) == parseQboFilename(item.filename)

\* renameDownload resumes from the read of pendingRename
DlPendingRename ==
  /\ dl.pc = "pendingRename"
  /\ Awaited("dl", "session", "pendingRename")
  /\ \E ok \in BOOLEAN :
       LET pendingRename == session["pendingRename"]
           rec  == Read([dl EXCEPT !.pendingRename = pendingRename],
                        "pendingRename", pendingRename)
           data == Tier1(pendingRename, now)
       IN  IF ~ok
           THEN dl' = Rejected(dl) /\ bgQ' = Tail(bgQ)
           ELSE IF data = Null /\ IsQboBlob(dl.item[1])
           THEN /\ dl' = [rec EXCEPT !.pc = "blobRenameData"]
                /\ bgQ' = Append(Tail(bgQ), SessionGet("blobRenameData", "dl"))
           ELSE IF data = Null
           THEN /\ dl' = [rec EXCEPT !.pc = "currentTransaction"]
                /\ bgQ' = Append(Tail(bgQ), SessionGet("currentTransaction", "dl"))
           ELSE Resolved(Tail(bgQ), rec, data, 1)
  /\ UNCHANGED <<now, ticks, sync, session, bt, cacheTab, dom, saves, nav, load, hk, probe>>

\* renameDownload resumes from the read of blobRenameData
DlBlobRenameData ==
  /\ dl.pc = "blobRenameData"
  /\ Awaited("dl", "session", "blobRenameData")
  /\ \E ok \in BOOLEAN :
       LET blobRenameData == session["blobRenameData"]
           rec  == Read(dl, "blobRenameData", blobRenameData)
           data == Tier2(blobRenameData, now)
       IN  IF ~ok
           THEN dl' = Rejected(dl) /\ bgQ' = Tail(bgQ)
           ELSE IF data = Null
           THEN /\ dl' = [rec EXCEPT !.pc = "currentTransaction"]
                /\ bgQ' = Append(Tail(bgQ), SessionGet("currentTransaction", "dl"))
           ELSE Resolved(Tail(bgQ), rec, data, 2)
  /\ UNCHANGED <<now, ticks, sync, session, bt, cacheTab, dom, saves, nav, load, hk, probe>>

\* renameDownload resumes from the read of currentTransaction
DlCurrentTransaction ==
  /\ dl.pc = "currentTransaction"
  /\ Awaited("dl", "session", "currentTransaction")
  /\ \E ok \in BOOLEAN :
       LET stored == session["currentTransaction"]
           rec    == Read(dl, "currentTransaction", stored)
       IN  IF ~ok
           THEN dl' = Rejected(dl) /\ bgQ' = Tail(bgQ)
           ELSE IF stored # Null
           THEN Resolved(Tail(bgQ), rec, stored, 3)
           ELSE Resolved(Tail(bgQ), rec, Tier4(dl.item[1]),
                         IF Tier4(dl.item[1]) = Null THEN 0 ELSE 4)
  /\ UNCHANGED <<now, ticks, sync, session, bt, cacheTab, dom, saves, nav, load, hk, probe>>

\* ------------------------------------------------------------------------
\* background.js: the preview-tab-ready hook
\* ------------------------------------------------------------------------

BtIdle ==
  [pc |-> "idle", tab |-> Null, opener |-> Null, settings |-> Null,
   pendingRename |-> Null, data |-> Null, tier |-> 0, title |-> Null,
   events |-> <<>>, reads |-> <<>>]

\* the chrome.tabs.onUpdated listener lets the event through
BlobTabComplete(url, status) == url[1] = QboBlob /\ status = "complete"

\* chrome.tabs.onUpdated fires for a tab: the listener filters the event
\* and calls handleBlobTab, which runs to the await in getSettings
TabUpdated ==
  /\ bt.pc = "idle"
  /\ \E tab \in Tabs, status \in {"loading", "complete"}, opener \in {Null, Some(0)} :
     \E url \in {TabUrl(tab), <<"https://qbo.intuit.com", tab>>} :
       IF BlobTabComplete(url, status)
       THEN /\ bt' = [BtIdle EXCEPT !.pc = "settings", !.tab = Some(tab),
                                    !.opener = opener]
            /\ bgQ' = Append(bgQ, Op("sync", "get", "DEFAULTS", Null, "bt"))
       ELSE UNCHANGED <<bt, bgQ>>
  /\ UNCHANGED <<now, ticks, sync, session, dl, cacheTab, dom, saves, nav, load, hk, probe>>

\* handleBlobTab's promise rejects; nothing handles the rejection
BtRejected(rec) == [rec EXCEPT !.pc = "failed", !.events = Append(@, "reject")]

\* !data?.num
NoNum(data) == data = Null \/ data[1].num = <<>>

\* handleBlobTab caching whatever record it resolved, numbered or not
BtResolved_AnyRecord(rec, data, tier) ==
  IF data = Null THEN [rec EXCEPT !.pc = "done"]
  ELSE [rec EXCEPT !.pc = "executeScript", !.data = Some(Fields(data[1])),
                   !.tier = tier,
                   !.title = Some(FormattedName(rec.settings[1], data[1], now))]

\* handleBlobTab from "if (!data?.num) return" to the await of
\* chrome.scripting.executeScript
BtResolved(rec, data, tier) ==
  IF NoNum(data) THEN [rec EXCEPT !.pc = "done"]
  ELSE [rec EXCEPT !.pc = "executeScript", !.data = Some(Fields(data[1])),
                   !.tier = tier,
                   !.title = Some(FormattedName(rec.settings[1], data[1], now))]

\* handleBlobTab resumes from "await getSettings()"
BtSettings ==
  /\ bt.pc = "settings"
  /\ Awaited("bt", "sync", "DEFAULTS")
  /\ \E ok \in BOOLEAN :
       LET items    == SyncGet(sync, DEFAULTS)
           settings == getSettings(items)
           rec      == [bt EXCEPT !.settings = Some(settings)]
           q        == Tail(bgQ) \o getSettingsCalls(items)
       IN  IF ~ok THEN bt' = BtRejected(bt) /\ bgQ' = Tail(bgQ)
           ELSE IF ~settings.enabled
           THEN bt' = [rec EXCEPT !.pc = "done"] /\ bgQ' = q
           ELSE /\ bt' = [rec EXCEPT !.pc = "pendingRename"]
                /\ bgQ' = Append(q, SessionGet("pendingRename", "bt"))
  /\ UNCHANGED <<now, ticks, sync, session, dl, cacheTab, dom, saves, nav, load, hk, probe>>

\* handleBlobTab resumes from the read of pendingRename
BtPendingRename ==
  /\ bt.pc = "pendingRename"
  /\ Awaited("bt", "session", "pendingRename")
  /\ \E ok \in BOOLEAN :
       LET pendingRename == session["pendingRename"]
           rec  == Read([bt EXCEPT !.pendingRename = pendingRename],
                        "pendingRename", pendingRename)
           data == Tier1(pendingRename, now)
       IN  IF ~ok THEN bt' = BtRejected(bt) /\ bgQ' = Tail(bgQ)
           ELSE IF data = Null /\ bt.opener # Null
           THEN /\ bt' = [rec EXCEPT !.pc = "sendMessage"]
                /\ bgQ' = Tail(bgQ)
           ELSE IF data = Null
           THEN /\ bt' = [rec EXCEPT !.pc = "currentTransaction"]
                /\ bgQ' = Append(Tail(bgQ), SessionGet("currentTransaction", "bt"))
           ELSE /\ bt' = BtResolved(rec, data, 1)
                /\ bgQ' = Tail(bgQ)
  /\ UNCHANGED <<now, ticks, sync, session, dl, cacheTab, dom, saves, nav, load, hk, probe>>

\* the onMessage listener of content.js answers 'getTransactionData'
getTransactionData == readTransactionData(dom)

\* handleBlobTab resumes from the query to the opener tab: its answer, or
\* the rejection the catch around it swallows
BtSendMessage ==
  /\ bt.pc = "sendMessage"
  /\ \E ok \in BOOLEAN :
       LET data == IF ok THEN getTransactionData ELSE Null
           rec  == [bt EXCEPT !.events = Append(@, IF ok THEN "answer" ELSE "queryFailed")]
       IN  IF data = Null
           THEN /\ bt' = [rec EXCEPT !.pc = "currentTransaction"]
                /\ bgQ' = Append(bgQ, SessionGet("currentTransaction", "bt"))
           ELSE /\ bt' = BtResolved(rec, data, 2)
                /\ bgQ' = bgQ
  /\ UNCHANGED <<now, ticks, sync, session, dl, cacheTab, dom, saves, nav, load, hk, probe>>

\* handleBlobTab resumes from the read of currentTransaction
BtCurrentTransaction ==
  /\ bt.pc = "currentTransaction"
  /\ Awaited("bt", "session", "currentTransaction")
  /\ \E ok \in BOOLEAN :
       LET stored == session["currentTransaction"]
           rec    == Read(bt, "currentTransaction", stored)
       IN  IF ~ok THEN bt' = BtRejected(bt)
           ELSE bt' = BtResolved(rec, stored, 3)
  /\ bgQ' = Tail(bgQ)
  /\ UNCHANGED <<now, ticks, sync, session, dl, cacheTab, dom, saves, nav, load, hk, probe>>

\* { blobRenameData: { num, customer, type, timestamp: Date.now() } }
BlobRecord(data, t) ==
  [num |-> data.num, customer |-> data.customer, type |-> data.type, timestamp |-> t]

\* handleBlobTab removing pendingRename only when it was the source
BtCalls_OnlySource(rec, t) ==
  <<[Op("session", "set", "blobRenameData", Some(BlobRecord(rec.data[1], t)), "none")
       EXCEPT !.tab = rec.tab]>>
  \o (IF rec.tier = 1
      THEN <<Op("session", "remove", "pendingRename", Null, "none")>>
      ELSE <<>>)

\* the storage calls that end handleBlobTab: the cache for later downloads,
\* and the removal of pendingRename
BtCalls(rec, t) ==
  <<[Op("session", "set", "blobRenameData", Some(BlobRecord(rec.data[1], t)), "none")
       EXCEPT !.tab = rec.tab]>>
  \o (IF rec.pendingRename # Null
      THEN <<Op("session", "remove", "pendingRename", Null, "none")>>
      ELSE <<>>)

\* executeScript outside a try block: its rejection rejects handleBlobTab
BtExecuteScript_Uncaught ==
  /\ bt.pc = "executeScript"
  /\ \E ok \in BOOLEAN :
       IF ok
       THEN /\ bt' = [bt EXCEPT !.pc = "done",
                                !.events = @ \o <<"title">>
                                             \o [i \in 1..Len(BtCalls(bt, now)) |->
                                                   BtCalls(bt, now)[i].kind]]
            /\ bgQ' = bgQ \o BtCalls(bt, now)
       ELSE /\ bt' = BtRejected(bt)
            /\ bgQ' = bgQ
  /\ UNCHANGED <<now, ticks, sync, session, dl, cacheTab, dom, saves, nav, load, hk, probe>>

\* handleBlobTab resumes from executeScript: the title is set, or the
\* rejection is caught; then the cache is written
BtExecuteScript ==
  /\ bt.pc = "executeScript"
  /\ \E ok \in BOOLEAN :
       /\ bt' = [bt EXCEPT !.pc = "done",
                           !.events = @ \o <<IF ok THEN "title" ELSE "caught">>
                                        \o [i \in 1..Len(BtCalls(bt, now)) |->
                                              BtCalls(bt, now)[i].kind]]
  /\ bgQ' = bgQ \o BtCalls(bt, now)
  /\ UNCHANGED <<now, ticks, sync, session, dl, cacheTab, dom, saves, nav, load, hk, probe>>

\* ------------------------------------------------------------------------
\* The specification of the two hooks
\* ------------------------------------------------------------------------

\* the service worker starts: the clock, the two stores as earlier sessions
\* and page visits left them, the page
Start(syncs, blobs, lefts, doms) ==
  /\ now = 0
  /\ ticks = 0
  /\ sync \in syncs
  /\ \E blob \in blobs, left \in lefts :
       session = [pendingRename |-> Null, blobRenameData |-> blob,
                  currentTransaction |-> left]
  /\ bgQ = <<>>
  /\ dl = DlIdle
  /\ bt = BtIdle
  /\ cacheTab = Null
  /\ dom \in doms
  /\ saves = 0
  /\ nav = NavIdle
  /\ load = LoadIdle
  /\ hk = HkIdle
  /\ probe = Null

\* chrome.storage.sync once the settings s are saved
Saved(s) ==
  [k \in DOMAIN DEFAULTS \cup {"showNotification"} |->
     IF k \in DOMAIN DEFAULTS THEN Some(s[k]) ELSE Null]

Disabled == [DEFAULTS EXCEPT !.enabled = FALSE]

\* chrome.storage.sync as a version before notifyMode left it: the boolean
\* showNotification stored, notifyMode never stored
Legacy(flag) ==
  [k \in DOMAIN DEFAULTS \cup {"showNotification"} |->
     IF k = "showNotification" THEN Some(flag)
     ELSE IF k = "notifyMode" THEN Null
     ELSE Some(DEFAULTS[k])]

\* the settings of the runs: the defaults, the extension switched off, the
\* badge only, and no notification with the other format and date format
SettingsChoices ==
  { DEFAULTS, Disabled,
    [DEFAULTS EXCEPT !.notifyMode = "badge"],
    [DEFAULTS EXCEPT !.notifyMode = "off", !.format = FormatTypeDate,
                     !.dateFormat = DateUS] }

\* the blobRenameData a preview tab left when the clock started
LeftBlob == Some(BlobRecord([num |-> <<"8">>, customer |-> <<>>, type |-> Bill], 0))

\* a finished invocation is forgotten before anything else happens: its
\* record is the observation of one run of a hook, not state of the program
DlForget ==
  /\ dl.pc = "done"
  /\ dl' = DlIdle
  /\ UNCHANGED <<now, ticks, sync, session, bgQ, bt, cacheTab, dom, saves, nav, load, hk, probe>>

BtForget ==
  /\ bt.pc \in {"done", "failed"}
  /\ bt' = BtIdle
  /\ UNCHANGED <<now, ticks, sync, session, bgQ, dl, cacheTab, dom, saves, nav, load, hk, probe>>

\* an invocation has just ended: its record is forgotten before anything
\* else happens, so that the state of an ended invocation is the state in
\* which it ended
Observing == dl.pc = "done" \/ bt.pc \in {"done", "failed"}

\* ---- the save-intercept hook on its own ----

InitDl == Start({Saved(c) : c \in SettingsChoices}, {Null, LeftBlob}, Leftovers, Doms)

NextDl ==
  \/ DlForget
  \/ ~Observing /\ Tick
  \/ ~Observing /\ BgServe
  \/ ~Observing /\ Click
  \/ ~Observing /\ DeterminingFilename
  \/ ~Observing /\ DlSettings
  \/ ~Observing /\ DlPendingRename
  \/ ~Observing /\ DlBlobRenameData
  \/ ~Observing /\ DlCurrentTransaction

SpecDl == InitDl /\ [][NextDl]_vars

\* ---- the preview-tab-ready hook on its own ----

InitBt == Start({Saved(DEFAULTS), Saved(Disabled)}, {Null}, Leftovers, Doms)

NextBt ==
  \/ BtForget
  \/ ~Observing /\ Tick
  \/ ~Observing /\ BgServe
  \/ ~Observing /\ Click
  \/ ~Observing /\ TabUpdated
  \/ ~Observing /\ BtSettings
  \/ ~Observing /\ BtPendingRename
  \/ ~Observing /\ BtSendMessage
  \/ ~Observing /\ BtCurrentTransaction
  \/ ~Observing /\ BtExecuteScript

SpecBt == InitBt /\ [][NextBt]_vars

\* ---- both hooks, one invocation at a time ----

Init == Start({Saved(DEFAULTS), Saved(Disabled)}, {Null}, Leftovers,
              {d \in Doms : d.num # <<>>})

Next ==
  \/ DlForget
  \/ BtForget
  \/ ~Observing /\ Tick
  \/ ~Observing /\ BgServe
  \/ ~Observing /\ Click
  \/ ~Observing /\ bt.pc = "idle" /\ DeterminingFilename
  \/ ~Observing /\ DlSettings
  \/ ~Observing /\ DlPendingRename
  \/ ~Observing /\ DlBlobRenameData
  \/ ~Observing /\ DlCurrentTransaction
  \/ ~Observing /\ dl.pc = "idle" /\ TabUpdated
  \/ ~Observing /\ BtSettings
  \/ ~Observing /\ BtPendingRename
  \/ ~Observing /\ BtSendMessage
  \/ ~Observing /\ BtCurrentTransaction
  \/ ~Observing /\ BtExecuteScript

Spec == Init /\ [][Next]_vars

\* ---- the navigation watcher of a page ----

InitNav == Start({Saved(DEFAULTS)}, {Null}, {Some(Fields(PageOf(0)))}, {PageOf(0)})

NextNav ==
  \/ RouteChange
  \/ Render
  \/ NavigateMessage
  \/ NavTimerFires
  \/ Extraction
  \/ NavTick

SpecNav == InitNav /\ [][NextNav]_vars

\* ---- a page that loads: the initial read and the navigation watcher ----

InitLoad ==
  Start({Saved(DEFAULTS)}, {Null}, Leftovers,
        {BlankPage, NumberOnly(0), PageOf(0), [PageOf(0) EXCEPT !.num = <<>>]})

NextLoad ==
  \/ ScriptLoads
  \/ InitRetry
  \/ RenderField
  \/ Elapse
  \/ load.pc # "idle" /\ Len(nav.changes) < MaxLoadRoutes /\ RouteChange
  \/ load.pc # "idle" /\ Render
  \/ load.pc # "idle" /\ NavigateMessage
  \/ load.pc # "idle" /\ NavTimerFires
  \/ load.pc # "idle" /\ Extraction

SpecLoad == InitLoad /\ [][NextLoad]_vars

\* ---- the save-intercept hook after an upgrade ----

InitLegacy == Start({Legacy(TRUE), Legacy(FALSE)}, {Null}, Leftovers, Doms)

SpecLegacy == InitLegacy /\ [][NextDl]_vars

\* ---- the formatter on its own ----

\* what templates are made of: placeholders, separators, whitespace, a
\* dot, an illegal character, a letter
Pieces ==
  { <<"{","n","u","m","}">>, <<"{","c","u","s","t","o","m","e","r","}">>,
    <<"{","d","a","t","e","}">>, <<" ">>, <<"NBSP">>, <<"-">>, <<"-","-">>,
    <<".">>, <<"/">>, <<"a">> }

RECURSIVE TemplatesOf(_)
TemplatesOf(n) ==
  IF n = 0 THEN {<<>>}
  ELSE LET shorter == TemplatesOf(n - 1)
       IN  shorter \cup {t \o p : t \in shorter, p \in Pieces}

Templates == TemplatesOf(MaxPieces)

\* the records formatted: plain fields, empty fields with a date format
\* holding slashes, fields made of separators and illegal characters
FormatData ==
  { [num |-> <<"7">>, customer |-> <<"A">>, type |-> Bill, dateFormat |-> DateDefault],
    [num |-> <<>>, customer |-> <<>>, type |-> <<>>, dateFormat |-> DateUS],
    [num |-> <<"-">>, customer |-> <<" ", ".", "?", "\t">>, type |-> Bill,
     dateFormat |-> <<>>] }

\* buildFilename is applied once to a template and a record, which are
\* kept with the name it returned
Format ==
  /\ probe = Null
  /\ \E format \in Templates, data \in FormatData :
       probe' = Some([format |-> format, data |-> data,
                      name |-> buildFilename(format, data, now)])
  /\ UNCHANGED <<now, ticks, sync, session, bgQ, dl, bt, cacheTab, dom, saves, nav, load, hk>>

InitFormat == Start({Saved(DEFAULTS)}, {Null}, {Null}, {PageOf(0)})

NextFormat == Format

SpecFormat == InitFormat /\ [][NextFormat]_vars

\* ---- the two hooks while the popup changes the settings ----

\* an invocation of the save-intercept hook is over: nothing of it stays in
\* the service worker; the settings it had read are kept for comparison
DlEnds ==
  /\ dl.pc = "done"
  /\ dl' = DlIdle
  /\ probe' = IF dl.settings = Null THEN probe ELSE dl.settings
  /\ UNCHANGED <<now, ticks, sync, session, bgQ, bt, cacheTab, dom, saves, nav, load, hk>>

\* likewise for the preview-tab-ready hook
BtEnds ==
  /\ bt.pc \in {"done", "failed"}
  /\ bt' = BtIdle
  /\ probe' = IF bt.settings = Null THEN probe ELSE bt.settings
  /\ UNCHANGED <<now, ticks, sync, session, bgQ, dl, cacheTab, dom, saves, nav, load, hk>>

\* no hook is running
Quiet == dl.pc = "idle" /\ bt.pc = "idle"

InitSettings == Start({Saved(DEFAULTS)}, {Null}, Leftovers \ {Null}, {PageOf(0)})

NextSettings ==
  \/ DlEnds
  \/ BtEnds
  \/ Quiet /\ SettingsSave
  \/ ~Observing /\ BgServe
  \/ ~Observing /\ bt.pc = "idle" /\ DeterminingFilename
  \/ ~Observing /\ DlSettings
  \/ ~Observing /\ DlPendingRename
  \/ ~Observing /\ DlBlobRenameData
  \/ ~Observing /\ DlCurrentTransaction
  \/ ~Observing /\ dl.pc = "idle" /\ TabUpdated
  \/ ~Observing /\ BtSettings
  \/ ~Observing /\ BtPendingRename
  \/ ~Observing /\ BtSendMessage
  \/ ~Observing /\ BtCurrentTransaction
  \/ ~Observing /\ BtExecuteScript

SpecSettings == InitSettings /\ [][NextSettings]_vars

\* ---- the two hooks interleaved ----

\* the log of what became of the pendingRename records: written by a
\* click, read by an invocation of a hook, used by it as its source
Noted(kind, by, rec) == Append(probe, [kind |-> kind, by |-> by, rec |-> rec])

\* the records the clicks have written so far
ClickedRecords == {probe[i].rec : i \in {j \in 1..Len(probe) : probe[j].kind = "click"}}

\* the click listener writes a pendingRename no earlier click wrote
ClickNoted ==
  /\ \E target \in ClickTargets :
       LET call == ClickCall(target, dom, now)
       IN  /\ call # Null
           /\ call[1].val[1] \notin ClickedRecords
           /\ session' = Written(session, call[1])
           /\ probe' = Noted("click", "page", call[1].val[1])
  /\ UNCHANGED <<now, ticks, sync, bgQ, dl, bt, cacheTab, dom, saves, nav, load, hk>>

\* what an ended invocation adds to the log: the pendingRename it read, as
\* used when it was the source
EndNote(by, rec) ==
  IF rec.reads = <<>> \/ rec.reads[1].value = Null THEN probe
  ELSE Noted(IF rec.tier = 1 THEN "use" ELSE "read", by, rec.reads[1].value[1])

\* an invocation of the save-intercept hook is over
DlEndsNoted ==
  /\ dl.pc = "done"
  /\ dl' = DlIdle
  /\ probe' = EndNote("dl", dl)
  /\ UNCHANGED <<now, ticks, sync, session, bgQ, bt, cacheTab, dom, saves, nav, load, hk>>

\* an invocation of the preview-tab-ready hook is over
BtEndsNoted ==
  /\ bt.pc \in {"done", "failed"}
  /\ bt' = BtIdle
  /\ probe' = EndNote("bt", bt)
  /\ UNCHANGED <<now, ticks, sync, session, bgQ, dl, cacheTab, dom, saves, nav, load, hk>>

InitRace == Start({Saved(DEFAULTS)}, {Null}, {Null}, {PageOf(0)})

NextRace ==
  \/ DlEndsNoted
  \/ BtEndsNoted
  \/ ~Observing /\ ClickNoted
  \/ ~Observing /\ BgServe
  \/ ~Observing /\ Len(probe) < MaxNotes /\ DeterminingFilename
  \/ ~Observing /\ DlSettings
  \/ ~Observing /\ DlPendingRename
  \/ ~Observing /\ DlBlobRenameData
  \/ ~Observing /\ DlCurrentTransaction
  \/ ~Observing /\ Len(probe) < MaxNotes /\ TabUpdated
  \/ ~Observing /\ BtSettings
  \/ ~Observing /\ BtPendingRename
  \/ ~Observing /\ BtSendMessage
  \/ ~Observing /\ BtCurrentTransaction
  \/ ~Observing /\ BtExecuteScript

SpecRace == InitRace /\ [][NextRace]_vars

\* ---- the fallback chain of renameDownload, under the default settings ----

InitChain == Start({Saved(DEFAULTS), Saved(Disabled)}, {Null, LeftBlob}, Leftovers, Doms)

SpecChain == InitChain /\ [][NextDl]_vars

\* ---- every writer of the session store, one activity at a time ----

\* no hook invocation, initial read, navigation or simulation has begun
AtRest == bt.pc = "idle" /\ load.pc = "idle" /\ hk.pc = "idle"

\* the content script loads with the page, before any click on it
PageFresh == AtRest /\ bgQ = <<>> /\ session["pendingRename"] = Null

InitStore ==
  Start({Saved(DEFAULTS)}, {Null, LeftBlob}, Leftovers,
        {BlankPage, NumberOnly(0), PageOf(0), [PageOf(0) EXCEPT !.num = <<>>]})

NextStore ==
  \/ BtForget
  \/ ~Observing /\ BgServe
  \/ ~Observing /\ load.pc = "idle" /\ hk.pc = "idle" /\ Click
  \/ ~Observing /\ load.pc = "idle" /\ hk.pc = "idle" /\ TabUpdated
  \/ ~Observing /\ BtSettings
  \/ ~Observing /\ BtPendingRename
  \/ ~Observing /\ BtSendMessage
  \/ ~Observing /\ BtCurrentTransaction
  \/ ~Observing /\ BtExecuteScript
  \/ PageFresh /\ ScriptLoads
  \/ InitRetry
  \/ load.pc # "idle" /\ RenderField
  \/ load.pc # "idle" /\ Elapse
  \/ load.pc # "idle" /\ Len(nav.changes) < MaxLoadRoutes /\ RouteChange
  \/ load.pc # "idle" /\ Render
  \/ load.pc # "idle" /\ NavigateMessage
  \/ load.pc # "idle" /\ NavTimerFires
  \/ load.pc # "idle" /\ Extraction
  \/ AtRest /\ HotkeyMessage
  \/ MenuRenders
  \/ MenuCloses
  \/ PollFires
  \/ SettleFires

SpecStore == InitStore /\ [][NextStore]_vars

\* ---- clicks on the page ----

InitClick == Start({Saved(DEFAULTS)}, {Null, LeftBlob}, Leftovers, Doms)

NextClick ==
  \/ ClickOn
  \/ Tick

SpecClick == InitClick /\ [][NextClick]_vars

\* ---- hotkey simulation in the page ----

InitHotkey == Start({Saved(DEFAULTS)}, {Null}, Leftovers, Doms)

NextHotkey ==
  \/ HotkeyMessage
  \/ MenuRenders
  \/ MenuCloses
  \/ PollFires
  \/ SettleFires

SpecHotkey == InitHotkey /\ [][NextHotkey]_vars

\* ------------------------------------------------------------------------
\* Properties of the save-intercept hook
\* ------------------------------------------------------------------------

\* the settings chrome.storage.sync holds
CurrentSettings == SyncGet(sync, DEFAULTS)

\* the invocation of the listener is over
DlDone == dl.pc = "done"

\* an awaited call of the invocation rejected
DlRejected == \E i \in 1..Len(dl.events) : dl.events[i] = "reject"

\* the record of a read, as the formatter takes it
ReadFields(read) == Fields(read.value[1])

\* the read found a record younger than ttl when it was made
ReadLive(read, ttl) ==
  read.value # Null /\ read.at - read.value[1].timestamp < ttl

\* C1: every invocation of the save-intercept hook calls suggest exactly
\* once: never twice while it runs, and once when it is over, whichever
\* path it took (disabled, out of scope, no data, a rejected read, a
\* throwing cleanup).
C1_SuggestExactlyOnce ==
  /\ Len(dl.answers) <= 1
  /\ DlDone => Len(dl.answers) = 1

\* C1 witness: the cleanup after suggest threw in a finished invocation.
C1_Witness ==
  /\ DlDone
  /\ dl.events[Len(dl.events)] = "caught"
  /\ dl.tier = 1

\* C2: the listener returns before any suggest: the first event of every
\* invocation is the return of the listener, no answer exists when it
\* returns, and every suggest comes later.
C2_ReturnsBeforeSuggest ==
  /\ dl.pc # "idle" => dl.events[1] = "return"
  /\ dl.pc = "settings" => dl.answers = <<>>
  /\ \A i \in 1..Len(dl.events) : dl.events[i] = "suggest" => i > 1

\* C2 witness: a finished invocation that suggested a new name.
C2_Witness ==
  /\ DlDone
  /\ dl.events[1] = "return"
  /\ dl.events[Len(dl.events)] = "notify"
  /\ dl.answers[1].conflictAction # Null

\* C3: for an in-scope item of a finished invocation with the extension
\* enabled and no rejected read, the data formatted is that of the first
\* tier that hits: pendingRename younger than 15000 ms; else, for a blob
\* item only, blobRenameData younger than 300000 ms; else
\* currentTransaction if present; else the parse of the item's name.  No
\* lower tier is read once a tier has hit.
C3_FirstTierThatHits ==
  (DlDone /\ ~DlRejected /\ CurrentSettings.enabled /\ InScope(dl.item[1])) =>
    LET item  == dl.item[1]
        n     == Len(dl.reads)
        last  == dl.reads[n]
        parse == parseQboFilename(item.filename)
    IN  /\ n >= 1
        /\ dl.reads[1].key = "pendingRename"
        /\ IF ReadLive(dl.reads[1], 15000)
           THEN n = 1 /\ dl.tier = 1 /\ dl.data = Some(ReadFields(dl.reads[1]))
           ELSE /\ n = (IF IsQboBlob(item) THEN 2 ELSE 1) + (IF dl.tier = 2 THEN 0 ELSE 1)
                /\ IsQboBlob(item) => dl.reads[2].key = "blobRenameData"
                /\ IF IsQboBlob(item) /\ ReadLive(dl.reads[2], 300000)
                   THEN dl.tier = 2 /\ dl.data = Some(ReadFields(dl.reads[2]))
                   ELSE /\ last.key = "currentTransaction"
                        /\ IF last.value # Null
                           THEN dl.tier = 3 /\ dl.data = Some(ReadFields(last))
                           ELSE IF parse # Null
                           THEN dl.tier = 4 /\ dl.data = Some(Fields(parse[1]))
                           ELSE dl.tier = 0 /\ dl.data = Null

\* C3 witness: a blob item whose pendingRename was exactly 15000 ms old and
\* whose blobRenameData was exactly 300000 ms old, named from
\* currentTransaction.
C3_Witness ==
  /\ DlDone
  /\ dl.tier = 3
  /\ Len(dl.reads) = 3
  /\ dl.reads[1].value # Null
  /\ dl.reads[1].at - dl.reads[1].value[1].timestamp = PENDING_TTL
  /\ dl.reads[2].value # Null
  /\ dl.reads[2].at - dl.reads[2].value[1].timestamp = BLOB_TTL

\* C4: every answer is the pass-through shape (the item's name, no
\* conflictAction) or the renamed shape (formatted name + ".pdf",
\* conflictAction "uniquify"); a finished invocation that resolved no data
\* answered the first, one that resolved a record answered the second,
\* built from that record and the stored format and date format.
C4_AnswerShapes ==
  /\ \A i \in 1..Len(dl.answers) :
       \/ dl.answers[i] = [filename |-> dl.item[1].filename, conflictAction |-> Null]
       \/ /\ dl.answers[i].conflictAction = Some("uniquify")
          /\ Len(dl.answers[i].filename) > 4
          /\ Slice(dl.answers[i].filename, Len(dl.answers[i].filename) - 3,
                   Len(dl.answers[i].filename)) = <<".","p","d","f">>
  /\ (DlDone /\ dl.data = Null) =>
       dl.answers = <<[filename |-> dl.item[1].filename, conflictAction |-> Null]>>
  /\ (DlDone /\ dl.data # Null) =>
       dl.answers =
         <<[filename |-> buildFilename(CurrentSettings.format,
                           [num |-> dl.data[1].num, customer |-> dl.data[1].customer,
                            type |-> dl.data[1].type,
                            dateFormat |-> CurrentSettings.dateFormat], now)
                         \o <<".","p","d","f">>,
            conflictAction |-> Some("uniquify")]>>

\* C4 witness: a finished invocation renamed the item under the format
\* {type}_{date}.
C4_Witness ==
  /\ DlDone
  /\ dl.data # Null
  /\ CurrentSettings.format = FormatTypeDate
  /\ dl.answers[1].conflictAction = Some("uniquify")

\* the storage calls of the service worker that touch the session store
SessionCalls == SelectSeq(bgQ, LAMBDA op : op.area = "session")

\* C5: a finished invocation for an item that is neither a QBO blob nor
\* named after the pattern answered the item's own name, read no tier,
\* made no call to the session store (so pendingRename stays, live or
\* not) and raised no notification.
C5_ScopeGuard ==
  (DlDone /\ ~IsQboBlob(dl.item[1]) /\ QboMatch(dl.item[1].filename) = Null) =>
    /\ dl.answers = <<[filename |-> dl.item[1].filename, conflictAction |-> Null]>>
    /\ dl.reads = <<>>
    /\ SessionCalls = <<>>
    /\ dl.notes = <<>>
    /\ \A i \in 1..Len(dl.events) : dl.events[i] \notin {"remove", "notify"}

\* C5 witness: an out-of-scope item passed through while a live
\* pendingRename was in the store, with the extension enabled.
C5_Witness ==
  /\ DlDone
  /\ ~DlRejected
  /\ CurrentSettings.enabled
  /\ ~InScope(dl.item[1])
  /\ Live(session["pendingRename"], PENDING_TTL, now)

\* C21: in an invocation of the save-intercept hook, a removal of
\* pendingRename or a notification comes only after a suggest of a renamed
\* filename; an invocation that answered the item's own name removed
\* nothing and raised nothing; after an exception caught in the cleanup
\* step, no rejection and no further suggest follow.
C21_CleanupAfterRename ==
  /\ \A i \in 1..Len(dl.events) :
       dl.events[i] \in {"remove", "notify", "caught"} =>
         /\ \E j \in 1..(i - 1) : dl.events[j] = "suggest"
         /\ dl.answers[1].conflictAction = Some("uniquify")
         /\ \A j \in (i + 1)..Len(dl.events) : dl.events[j] \notin {"suggest", "reject"}
  /\ (dl.answers # <<>> /\ dl.answers[1].conflictAction = Null) =>
       /\ dl.notes = <<>>
       /\ \A i \in 1..Len(dl.events) : dl.events[i] \notin {"remove", "notify", "caught"}
       /\ \A i \in 1..Len(bgQ) : bgQ[i].kind # "remove"

\* C21 witness: a renamed download removed pendingRename, set the badge,
\* and the toast threw into the catch of the cleanup step.
C21_Witness ==
  /\ DlDone
  /\ dl.events = <<"return", "suggest", "remove", "notify", "caught">>
  /\ Len(dl.answers) = 1

\* ------------------------------------------------------------------------
\* Properties of the two hooks together
\* ------------------------------------------------------------------------

\* C6: with enabled off both hooks are no-ops: the save-intercept hook
\* answers the item's own name, the preview-tab-ready hook sets no title
\* and asks no opener, and neither reads the session store, calls it, or
\* raises a notification.
C6_DisabledNoOp ==
  ~CurrentSettings.enabled =>
    /\ SessionCalls = <<>>
    /\ dl.reads = <<>>
    /\ dl.notes = <<>>
    /\ \A i \in 1..Len(dl.events) : dl.events[i] \notin {"remove", "notify"}
    /\ DlDone => dl.answers = <<[filename |-> dl.item[1].filename, conflictAction |-> Null]>>
    /\ bt.reads = <<>>
    /\ bt.title = Null
    /\ bt.pc \in {"idle", "settings", "done", "failed"}
    /\ bt.events \in {<<>>, <<"reject">>}

\* C6 witness: with the extension off, a download of a QBO blob passed
\* through while a live pendingRename was in the store.
C6_Witness ==
  /\ ~CurrentSettings.enabled
  /\ DlDone
  /\ ~DlRejected
  /\ IsQboBlob(dl.item[1])
  /\ Live(session["pendingRename"], PENDING_TTL, now)

\* a finished download from the preview tab whose hook wrote the
\* blobRenameData the store holds, less than 300000 ms after that write,
\* with the extension enabled and no rejected read
FromCachedTab ==
  /\ DlDone
  /\ ~DlRejected
  /\ CurrentSettings.enabled
  /\ IsQboBlob(dl.item[1])
  /\ cacheTab = Some(dl.item[1].url[2])
  /\ session["blobRenameData"] # Null
  /\ now - session["blobRenameData"][1].timestamp < BLOB_TTL

\* the answer that names the item from the cached record
NamedFromCache ==
  dl.answers =
    <<[filename |-> FormattedName(CurrentSettings, session["blobRenameData"][1], now)
                    \o <<".","p","d","f">>,
       conflictAction |-> Some("uniquify")]>>

\* C7 as claimed: a download from the preview tab T, less than 300000 ms
\* after T's hook cached D, is named from D whatever happened in between.
C7_AnyInterleaving == FromCachedTab => NamedFromCache

\* C7, amended: such a download is named from D when the pendingRename the
\* hook read was absent or at least 15000 ms old, the cache being that of
\* T (no other preview tab's hook wrote blobRenameData since).
C7_CachedDownload ==
  (FromCachedTab /\ ~ReadLive(dl.reads[1], PENDING_TTL)) =>
    /\ dl.tier = 2
    /\ NamedFromCache

\* C7 witness: a download from the cached tab named from the cache, past
\* an expired pendingRename of another record.
C7_Witness ==
  /\ FromCachedTab
  /\ dl.tier = 2
  /\ dl.reads[1].value # Null
  /\ Fields(dl.reads[1].value[1]) # dl.data[1]

\* C22 as claimed: the save-intercept hook takes a pendingRename as its
\* source only if its action is "download", the preview-tab-ready hook only
\* if its action is "print".
C22_OnlyMatchingAction ==
  /\ (DlDone /\ dl.tier = 1) => dl.reads[1].value[1].action = "download"
  /\ (bt.pc = "done" /\ bt.tier = 1) => bt.reads[1].value[1].action = "print"

\* C22, amended: neither hook looks at the action: a finished invocation
\* that read pendingRename took it as its source exactly when the record
\* was present and younger than 15000 ms (and, for the preview tab, had a
\* number), whatever its action.
C22_ActionIgnored ==
  /\ (DlDone /\ dl.reads # <<>>) =>
       (dl.tier = 1 <=> ReadLive(dl.reads[1], PENDING_TTL))
  /\ (bt.pc = "done" /\ bt.reads # <<>>) =>
       (bt.tier = 1 <=> (ReadLive(bt.reads[1], PENDING_TTL)
                           /\ bt.reads[1].value[1].num # <<>>))

\* C22 witness: a download was named from the record of a click on Print.
C22_Witness ==
  /\ DlDone
  /\ dl.tier = 1
  /\ dl.reads[1].value[1].action = "print"
  /\ dl.answers[1].conflictAction = Some("uniquify")

\* C24: no two invocations have used the same pendingRename record as
\* their source.
C24_UsedAtMostOnce ==
  \A i, j \in 1..Len(probe) :
    (i < j /\ probe[i].kind = "use" /\ probe[j].kind = "use") => probe[i].rec # probe[j].rec

\* the step serves a removal of pendingRename that deletes a record
RemovesRecord ==
  /\ bgQ # <<>>
  /\ bgQ[1].kind = "remove"
  /\ bgQ[1].key = "pendingRename"
  /\ bgQ' = Tail(bgQ)
  /\ session["pendingRename"] # Null
  /\ session'["pendingRename"] = Null

\* C25: a removal of pendingRename deletes only a record that an ended
\* invocation had read.
C25_DeletesOnlyWhatWasRead ==
  [][RemovesRecord =>
       \E i \in 1..Len(probe) :
         probe[i].kind \in {"read", "use"} /\ probe[i].rec = session["pendingRename"][1]]_vars

\* ------------------------------------------------------------------------
\* Properties of the preview-tab-ready hook
\* ------------------------------------------------------------------------

BtDone == bt.pc = "done"

BtEvent(e) == \E i \in 1..Len(bt.events) : bt.events[i] = e

\* C8: a finished invocation that resolved a record has a non-empty num,
\* set (or failed to set) the title to the formatted name and called
\* set blobRenameData = {num, customer, type, timestamp: now} of that
\* record; once the title is computed the invocation never rejects; after
\* a failed opener query the resolution goes on with currentTransaction.
C8_TitleAndCache ==
  /\ (BtDone /\ bt.data # Null) =>
       /\ bt.data[1].num # <<>>
       /\ bt.title = Some(buildFilename(CurrentSettings.format,
                            [num |-> bt.data[1].num, customer |-> bt.data[1].customer,
                             type |-> bt.data[1].type,
                             dateFormat |-> CurrentSettings.dateFormat], now))
       /\ BtEvent("title") \/ BtEvent("caught")
       /\ \E i \in 1..Len(bgQ) :
            /\ bgQ[i].kind = "set"
            /\ bgQ[i].key = "blobRenameData"
            /\ bgQ[i].val = Some([num |-> bt.data[1].num, customer |-> bt.data[1].customer,
                                  type |-> bt.data[1].type, timestamp |-> now])
  /\ bt.title # Null => bt.pc # "failed"
  /\ BtEvent("queryFailed") =>
       \/ bt.pc \in {"currentTransaction", "failed"}
       \/ /\ Len(bt.reads) = 2
          /\ bt.reads[2].key = "currentTransaction"
          /\ bt.data # Null => bt.tier = 3 /\ bt.data = Some(ReadFields(bt.reads[2]))

\* C8 witness: the opener query failed, the title could not be set, and
\* the record of currentTransaction was cached all the same.
C8_Witness ==
  /\ BtDone
  /\ bt.data # Null
  /\ BtEvent("queryFailed")
  /\ BtEvent("caught")

\* the hook has called remove('pendingRename')
RemoveIssued ==
  \E i \in 1..Len(bgQ) : bgQ[i].kind = "remove" /\ bgQ[i].key = "pendingRename"

\* C9 as claimed: a finished invocation that resolved a record deletes
\* pendingRename if that was the source of the record, and leaves it
\* otherwise.
C9_DeletesIffSource ==
  (BtDone /\ bt.data # Null) => (RemoveIssued <=> bt.tier = 1)

\* C9, amended: a finished invocation deletes pendingRename exactly when
\* it resolved a record with a number and the pendingRename it read was
\* present, fresh or expired, the source or not.
C9_DeletesWhatItRead ==
  BtDone =>
    (RemoveIssued <=> (bt.data # Null /\ bt.reads # <<>> /\ bt.reads[1].value # Null))

\* C9 witness: the hook named the tab from currentTransaction and deleted
\* an expired pendingRename.
C9_Witness ==
  /\ BtDone
  /\ bt.tier = 3
  /\ ~ReadLive(bt.reads[1], PENDING_TTL)
  /\ RemoveIssued

\* C19: a finished invocation whose opener answered without a number (a
\* record with no number, or no record) has read currentTransaction.
C19_FallsBackWithoutNumber ==
  (bt.pc = "done" /\ BtEvent("answer") /\ dom.num = <<>>) =>
    \E i \in 1..Len(bt.reads) : bt.reads[i].key = "currentTransaction"

\* ------------------------------------------------------------------------
\* Properties of the navigation watcher
\* ------------------------------------------------------------------------

\* the route changed twice, the second time within the settle window of
\* the first, the page has rendered and nothing is under way
TwoChangesSettled ==
  /\ Len(nav.changes) = 2
  /\ nav.changes[2] - nav.changes[1] < NAV_DELAY + SETTLE_DELAY
  /\ nav.msgs = 0
  /\ nav.navTimer = Null
  /\ nav.settle = <<>>
  /\ dom = PageOf(nav.href)

\* C10: two route changes within the settle window end in exactly one
\* extraction and one write of currentTransaction, made after the second
\* change and holding the data of the final route.
C10_OneExtraction ==
  TwoChangesSettled =>
    /\ Len(nav.extractions) = 1
    /\ nav.extractions[1].at >= nav.changes[2]
    /\ nav.extractions[1].data = Some(Fields(PageOf(nav.href)))
    /\ session["currentTransaction"] = Some(Fields(PageOf(nav.href)))

\* C20: after a single route change, whichever of the 'navigate' message
\* and the observer's timer came first, at most one extraction was made.
C20_OneExtractionPerChange ==
  Len(nav.changes) = 1 => Len(nav.extractions) <= 1

\* ------------------------------------------------------------------------
\* Properties of the initial read and of the extractions
\* ------------------------------------------------------------------------

\* the step makes an extraction, of the navigation watcher or of initRead
Extracts ==
  \/ Len(nav'.extractions) > Len(nav.extractions)
  \/ Len(load'.reads) > Len(load.reads)

\* what a step may do to the session store
ExtractionStep ==
  /\ session'["pendingRename"] = session["pendingRename"]
  /\ session'["blobRenameData"] = session["blobRenameData"]
  /\ session["currentTransaction"] # Null => session'["currentTransaction"] # Null
  /\ IF Extracts /\ readTransactionData(dom) # Null
     THEN session'["currentTransaction"] = readTransactionData(dom)
     ELSE session' = session

\* C11: every extraction, on a navigation signal or on initial load, that
\* returns a record overwrites currentTransaction with that record; a null
\* extraction and every other step of the page leave the store as it is;
\* currentTransaction is never deleted and pendingRename and
\* blobRenameData are never written.
C11_ExtractionFrame == [][ExtractionStep]_vars

\* C11 witness: the initial read found nothing and left the record of an
\* earlier visit; a later extraction of the navigation watcher replaced it.
C11_Witness ==
  /\ load.reads = <<Null>>
  /\ nav.extractions # <<>>
  /\ nav.extractions[Len(nav.extractions)].data # Null
  /\ session["currentTransaction"] = nav.extractions[Len(nav.extractions)].data

\* C12: after each extraction of the initial read, another one is
\* scheduled exactly while the name is still empty (also when nothing was
\* found) and fewer than 5 retries have been made; there are at most 6
\* extractions.
C12_RetriesWhileNameEmpty ==
  /\ Len(load.reads) <= 6
  /\ load.reads # <<>> =>
       LET last      == load.reads[Len(load.reads)]
           nameEmpty == last = Null \/ last[1].customer = <<>>
       IN  load.pc = "waiting" <=> (nameEmpty /\ Len(load.reads) - 1 < 5)

\* ------------------------------------------------------------------------
\* Properties of the click listener
\* ------------------------------------------------------------------------

\* the action a click on the target stands for: print for the header print
\* button; for a menu item the word its text is once trimmed and
\* lower-cased, if that is download or print; none otherwise
IntendedAction(target) ==
  IF target.headerPrint THEN Some("print")
  ELSE IF target.menuItem = Some(<<" ","D","o","w","n","l","o","a","d">>) THEN Some("download")
  ELSE IF target.menuItem = Some(<<"P","r","i","n","t">>) THEN Some("print")
  ELSE Null

\* C13: after the click listener has run for a target, with the store as
\* it was before: if the target stands for an action and the page yields
\* a record, pendingRename is {action, num, customer, type, timestamp: the
\* instant of the click} and every other key is as before; otherwise the
\* store is as before.
C13_ClickResolution ==
  probe # Null =>
    LET target == probe[1].target
        action == IntendedAction(target)
        found  == ~(dom.num = <<>> /\ dom.customer = <<>>)
    IN  IF action # Null /\ found
        THEN session = [probe[1].before EXCEPT !["pendingRename"] =
                          Some([action |-> action[1], num |-> dom.num,
                                customer |-> dom.customer, type |-> dom.type,
                                timestamp |-> probe[1].at])]
        ELSE session = probe[1].before

\* C13 witness: a click on the menu item " Download" replaced an older
\* pendingRename by a download record.
C13_Witness ==
  /\ probe # Null
  /\ probe[1].target.menuItem = Some(<<" ","D","o","w","n","l","o","a","d">>)
  /\ probe[1].before["pendingRename"] # Null
  /\ probe[1].before["pendingRename"] # session["pendingRename"]
  /\ session["pendingRename"][1].action = "download"

\* ------------------------------------------------------------------------
\* Properties of the hotkey simulation
\* ------------------------------------------------------------------------

\* C14: every menu item a hotkey simulation has clicked shows the text of
\* the requested action.
C14_ClicksOnlyByText ==
  \A i \in 1..Len(hk.clicks) : TextMatches(hk.clicks[i].text, hk.action[1])

\* C15: the interval of the menu-readiness poll runs at most 40 times.
C15_AtMostFortyPolls == hk.attempts <= POLL_CEILING

\* C23: when a hotkey simulation has ended on a page that yields a record,
\* the pendingRename in the store holds the action that was requested.
C23_KeepsRequestedAction ==
  (hk.pc = "done" /\ session["pendingRename"] # Null) =>
    session["pendingRename"][1].action = hk.action[1]

\* ------------------------------------------------------------------------
\* Properties of the settings
\* ------------------------------------------------------------------------

\* C16: a settings read made while the store holds the legacy
\* showNotification = false yields notifyMode "off".
C16_LegacyFlagMigrated ==
  (dl.settings # Null /\ sync["showNotification"] = Some(FALSE))
    => dl.settings[1].notifyMode = "off"

\* what the preference store holds, every setting being stored
StoredSettings == [k \in DOMAIN DEFAULTS |-> sync[k][1]]

\* C18: the settings a hook invocation has read are those the store holds
\* at that invocation, and they are the ones applied: with enabled off the
\* download passes through and the preview tab gets no title; a renamed
\* download and a preview-tab title are built with the stored format and
\* date format; no notification is raised under "off" and no toast unless
\* the mode is "toast".
C18_SettingsReadFresh ==
  /\ dl.settings # Null => dl.settings[1] = StoredSettings
  /\ bt.settings # Null => bt.settings[1] = StoredSettings
  /\ (DlDone /\ ~DlRejected /\ ~StoredSettings.enabled) =>
       dl.answers = <<[filename |-> dl.item[1].filename, conflictAction |-> Null]>>
  /\ (DlDone /\ dl.data # Null) =>
       /\ StoredSettings.enabled
       /\ dl.answers =
            <<[filename |-> buildFilename(StoredSettings.format,
                              [num |-> dl.data[1].num, customer |-> dl.data[1].customer,
                               type |-> dl.data[1].type,
                               dateFormat |-> StoredSettings.dateFormat], now)
                            \o <<".","p","d","f">>,
               conflictAction |-> Some("uniquify")]>>
  /\ StoredSettings.notifyMode = "off" => dl.notes = <<>>
  /\ StoredSettings.notifyMode # "toast" =>
       \A i \in 1..Len(dl.notes) : dl.notes[i].call # "notifications.create"
  /\ (bt.settings # Null /\ ~StoredSettings.enabled) => bt.pc = "done" /\ bt.title = Null
  /\ (BtDone /\ bt.data # Null) =>
       bt.title = Some(buildFilename(StoredSettings.format,
                         [num |-> bt.data[1].num, customer |-> bt.data[1].customer,
                          type |-> bt.data[1].type,
                          dateFormat |-> StoredSettings.dateFormat], now))

\* C18 witness: an invocation ended under the settings kept, the format
\* was changed to {type}_{date}, and the next download was renamed under
\* the new format.
C18_Witness ==
  /\ probe # Null
  /\ probe[1].format = FormatDefault
  /\ DlDone
  /\ dl.data # Null
  /\ dl.settings[1].format = FormatTypeDate
  /\ dl.answers[1].conflictAction = Some("uniquify")

\* ------------------------------------------------------------------------
\* Properties of the formatter
\* ------------------------------------------------------------------------

\* the characters < > : " / \ | ? * and the control characters
Forbidden == {"<", ">", ":", "\"", "/", "\\", "|", "?", "*", "\t", "\n", "\r", "\f"}

Whitespace == {" ", "NBSP", "\t", "\n", "\r", "\f"}

\* C17: the name the formatter returns holds no forbidden character, no
\* two whitespace characters in a row, no three dashes in a row, neither
\* starts nor ends with whitespace or a dot, and is not empty.
C17_FormatterOutput ==
  probe # Null =>
    LET name == probe[1].name
        n    == Len(name)
    IN  /\ n > 0
        /\ \A i \in 1..n : name[i] \notin Forbidden
        /\ \A i \in 1..(n - 1) : ~(name[i] \in Whitespace /\ name[i + 1] \in Whitespace)
        /\ \A i \in 1..(n - 2) : ~(name[i] = "-" /\ name[i + 1] = "-" /\ name[i + 2] = "-")
        /\ name[1] \notin Whitespace \cup {"."}
        /\ name[n] \notin Whitespace \cup {"."}

\* C17 witness: the template " / " lost its slash, then its two spaces,
\* and the name is the timestamped default.
C17_Witness ==
  /\ probe # Null
  /\ probe[1].format = <<" ", "/", " ">>
  /\ probe[1].name = QBO_Document \o <<"0">>


\* ------------------------------------------------------------------------
\* Properties of the session store
\* ------------------------------------------------------------------------

\* a record names a transaction: it has a number or a name
Identified(r) == r.num # <<>> \/ r.customer # <<>>

\* C26: in every reachable state a currentTransaction or pendingRename in
\* the session store has a non-empty number or a non-empty name, every
\* pendingRename has the action "print" or "download" and a timestamp, and
\* every blobRenameData has a non-empty number and a timestamp
C26_StoreShape ==
  /\ session["currentTransaction"] # Null =>
       Identified(session["currentTransaction"][1])
  /\ session["pendingRename"] # Null =>
       /\ Identified(session["pendingRename"][1])
       /\ session["pendingRename"][1].action \in {"print", "download"}
       /\ session["pendingRename"][1].timestamp \in Nat
  /\ session["blobRenameData"] # Null =>
       /\ session["blobRenameData"][1].num # <<>>
       /\ session["blobRenameData"][1].timestamp \in Nat

\* the hook has met a pendingRename that has a name and no number, and the
\* store holds that record and no blobRenameData
C26_Witness ==
  /\ bt.pc = "done"
  /\ bt.reads # <<>>
  /\ bt.reads[1].value # Null
  /\ bt.reads[1].value[1].num = <<>>
  /\ session["pendingRename"] # Null
  /\ session["pendingRename"][1].num = <<>>
  /\ session["pendingRename"][1].customer # <<>>
  /\ session["blobRenameData"] = Null


\* ------------------------------------------------------------------------
\* Properties of the fallback chain
\* ------------------------------------------------------------------------

\* the original name matches the <Type> <number> pattern
PatternNamed(item) == QboMatch(item.filename) # Null

\* C27: for every enabled, in-scope item whose original name matches the
\* <Type> <number> pattern the chain resolves a record, at the latest at
\* tier 4 with the parsed type and number and an empty name; the item passes
\* through for want of data only when it is of blob origin, its name does not
\* match the pattern and tiers 1 to 3 all miss
C27_ChainTotal ==
  (DlDone /\ ~DlRejected /\ CurrentSettings.enabled /\ InScope(dl.item[1])) =>
    LET item == dl.item[1]
    IN  /\ PatternNamed(item) =>
             /\ dl.data # Null
             /\ dl.tier \in 1..4
             /\ dl.answers[1].conflictAction = Some("uniquify")
             /\ dl.tier = 4 =>
                  /\ dl.data[1].type = QboMatch(item.filename)[1].type
                  /\ dl.data[1].num = QboMatch(item.filename)[1].num
                  /\ dl.data[1].customer = <<>>
        /\ dl.data = Null =>
             /\ IsQboBlob(item)
             /\ ~PatternNamed(item)
             /\ Len(dl.reads) = 3
             /\ ~ReadLive(dl.reads[1], 15000)
             /\ ~ReadLive(dl.reads[2], 300000)
             /\ dl.reads[3].value = Null
             /\ dl.answers[1].conflictAction = Null

\* a pattern-named item that missed tiers 1 to 3 is renamed from its own name
C27_Witness ==
  /\ DlDone
  /\ ~DlRejected
  /\ dl.tier = 4
  /\ PatternNamed(dl.item[1])
  /\ dl.data # Null
  /\ dl.data[1].customer = <<>>
  /\ dl.data[1].num = <<"7">>
  /\ dl.answers[1].conflictAction = Some("uniquify")

=============================================================================
